---- MODULE Spec2Model ----
(***************************************************************************)
(* A model of the OpenAPI-MCP operation translation and execution engine:  *)
(*   - MCPServer of src/src/server.py: credential cache, spec loading,     *)
(*     operation table, tool registration, request preparation and the     *)
(*     generated tool functions;                                           *)
(*   - the paginating tool function of src/openapi-mcp.py.                 *)
(* Python strings are sequences of one-character strings, so that slicing, *)
(* stripping, substitution and sanitizing are computed as the code does.   *)
(***************************************************************************)
EXTENDS Integers, Sequences, FiniteSets, TLC

\* ------------------------------------------------------------------ bounds
MaxTime == 1
MaxLifetime == 1
MaxCalls == 2
MaxAuthCalls == 3
MaxTotalPages == 3
\* the pages counted one by one, and the requests and payloads kept
MaxPage == MaxTotalPages - 1
MaxKept == MaxTotalPages + 1
\* calls of get_oauth_access_token by the concurrent callers
MaxConcLookups == 3

\* ------------------------------------------------------- program constants
MaxNameLen == 64
DefaultExpires == 3600

\* ------------------------------------------------------------ Python strings
Lowers == <<"a","b","c","d","e","f","g","h","i","j","k","l","m",
            "n","o","p","q","r","s","t","u","v","w","x","y","z">>
Uppers == <<"A","B","C","D","E","F","G","H","I","J","K","L","M",
            "N","O","P","Q","R","S","T","U","V","W","X","Y","Z">>
Digits == <<"0","1","2","3","4","5","6","7","8","9">>

Range(s) == {s[i] : i \in DOMAIN s}

IndexIn(c, tbl) == CHOOSE i \in DOMAIN tbl : tbl[i] = c

upper(s) == [i \in DOMAIN s |-> IF s[i] \in Range(Lowers) THEN Uppers[IndexIn(s[i], Lowers)] ELSE s[i]]

lower(s) == [i \in DOMAIN s |-> IF s[i] \in Range(Uppers) THEN Lowers[IndexIn(s[i], Uppers)] ELSE s[i]]

startswith(s, p) == Len(s) >= Len(p) /\ SubSeq(s, 1, Len(p)) = p

RECURSIVE rstrip(_, _)
rstrip(s, c) == IF s # <<>> /\ s[Len(s)] = c THEN rstrip(SubSeq(s, 1, Len(s) - 1), c) ELSE s

RECURSIVE lstrip(_, _)
lstrip(s, c) == IF s # <<>> /\ Head(s) = c THEN lstrip(Tail(s), c) ELSE s

\* str.replace(old, new): every non-overlapping occurrence, left to right
RECURSIVE replace(_, _, _)
replace(s, old, new) ==
    IF Len(s) < Len(old) \/ old = <<>> THEN s
    ELSE IF SubSeq(s, 1, Len(old)) = old
         THEN new \o replace(SubSeq(s, Len(old) + 1, Len(s)), old, new)
         ELSE <<Head(s)>> \o replace(Tail(s), old, new)

\* position of the first / last occurrence of character c in s, 0 if none
FirstPos(s, c) == IF c \in Range(s) THEN CHOOSE i \in DOMAIN s : s[i] = c /\ \A j \in 1..(i-1) : s[j] # c ELSE 0

LastPos(s, c) == IF c \in Range(s) THEN CHOOSE i \in DOMAIN s : s[i] = c /\ \A j \in (i+1)..Len(s) : s[j] # c ELSE 0

\* s.rsplit(c, 1)[0]
rsplit_head(s, c) == IF LastPos(s, c) = 0 THEN s ELSE SubSeq(s, 1, LastPos(s, c) - 1)

\* ------------------------------------------------------------- Python values
\* every value is a record [t, s]: its type tag and its text
None == [t |-> "none", s |-> <<>>]

Str(s) == [t |-> "str", s |-> s]

PyInt(digits) == [t |-> "int", s |-> digits]

PyTrue == [t |-> "bool", s |-> <<"T","r","u","e">>]

PyFalse == [t |-> "bool", s |-> <<"F","a","l","s","e">>]

PyBool(b) == IF b THEN PyTrue ELSE PyFalse

\* truth value of a Python object in a condition
Truthy(v) ==
    CASE v.t = "none" -> FALSE
      [] v.t = "bool" -> v = PyTrue
      [] v.t = "int" -> v.s # <<"0">>
      [] OTHER -> v.s # <<>>

\* str(v)
str(v) == IF v.t = "none" THEN <<"N","o","n","e">> ELSE v.s

\* int(v): [ok, v]; a ValueError or TypeError is ok = FALSE
StripSpaces(s) == rstrip(lstrip(s, " "), " ")

Unsigned(s) == IF s # <<>> /\ Head(s) \in {"+", "-"} THEN Tail(s) ELSE s

Canonical(s) ==
    LET body == lstrip(Unsigned(s), "0")
        mag == IF body = <<>> THEN <<"0">> ELSE body
    IN IF s # <<>> /\ Head(s) = "-" /\ mag # <<"0">> THEN <<"-">> \o mag ELSE mag

\* variant with a slip: the value is passed on as it came
int_unconverted(v) == [ok |-> TRUE, v |-> v]

int(v) ==
    CASE v.t = "int" -> [ok |-> TRUE, v |-> v]
      [] v.t = "bool" -> [ok |-> TRUE, v |-> PyInt(IF v = PyTrue THEN <<"1">> ELSE <<"0">>)]
      [] v.t = "str" ->
            LET s == StripSpaces(v.s)
                u == Unsigned(s)
            IN IF u # <<>> /\ Range(u) \subseteq Range(Digits)
               THEN [ok |-> TRUE, v |-> PyInt(Canonical(s))]
               ELSE [ok |-> FALSE, v |-> None]
      [] OTHER -> [ok |-> FALSE, v |-> None]

\* float(v), for the texts the model uses: integer literals
float(v) ==
    LET r == int(v)
    IN IF r.ok THEN [ok |-> TRUE, v |-> [t |-> "float", s |-> r.v.s \o <<".","0">>]]
       ELSE [ok |-> FALSE, v |-> None]

TruthyForms == {<<"t","r","u","e">>, <<"1">>, <<"y","e","s">>, <<"y">>}

\* ------------------------------------------------------------------- state
VARIABLES
    phase,             \* "init", "serving" or "exited" (sys.exit)
    environ,           \* os.environ: the OAuth and OpenAPI settings
    server_name,       \* MCPServer.server_name
    now,               \* time.time()
    oauth_cache,       \* MCPServer.oauth_cache: [token, expiry]
    openapi_spec,      \* MCPServer.openapi_spec
    operations_info,   \* MCPServer.operations_info: insertion-ordered [key, val]
    registered_tools,  \* MCPServer.registered_tools: insertion-ordered [key, val]
    api_server_url,    \* server_url of register_openapi_tools, captured by the tool functions
    ncalls,            \* calls made so far
    lookups,           \* calls of get_oauth_access_token so far
    exchanges,         \* requests sent to the OAuth token endpoint so far
    token_issued,      \* the latest answered exchange: when it completed and its lifetime
    last,              \* the latest call: its inputs, what it returned, what it sent
    cli_pc,            \* the paginating tool function: "idle", "paging", "done", "raised"
    cli_kwargs,        \* the keyword arguments of its current invocation
    cli_req,           \* its locals url_full, query, body, dry_run; sent: parity of the page requests
    current_page,      \* its local current_page
    results,           \* its local results
    cli_log,           \* the HTTP requests it sent, with their answers, in order
    cli_ret,           \* what it returned
    rpc,               \* the invocation of the JSON-RPC command line: what was called, what came out
    fetched,           \* what the fetch of OPENAPI_URL produced, as load_openapi got it
    callers            \* concurrent callers of get_oauth_access_token: where each one stands

srv_vars == <<phase, environ, server_name, now, oauth_cache, openapi_spec, operations_info,
              registered_tools, api_server_url, ncalls, lookups, exchanges, token_issued, last>>

cli_vars == <<cli_pc, cli_kwargs, cli_req, current_page, results, cli_log, cli_ret>>

conc_vars == <<callers>>

vars == <<srv_vars, cli_vars, conc_vars, fetched, rpc>>

\* ------------------------------------------------------------------ OAuthCache
OAuthCache == [token |-> None, expiry |-> 0]

\* variants with a slip: the expiry instant still counts as valid; the expiry is ignored
get_token_inclusive(cache, t) == IF Truthy(cache.token) /\ t <= cache.expiry THEN cache.token ELSE None

get_token_no_expiry(cache, t) == IF Truthy(cache.token) THEN cache.token ELSE None

get_token(cache, t) == IF Truthy(cache.token) /\ t < cache.expiry THEN cache.token ELSE None

set_token(cache, token, expires_in, t) == [token |-> token, expiry |-> t + expires_in]

\* ---------------------------------------------------------- Python dicts
\* a dict with string keys is a function from names to values
EmptyMap == [k \in {} |-> None]

update(m1, m2) == [k \in (DOMAIN m1) \cup (DOMAIN m2) |-> IF k \in DOMAIN m2 THEN m2[k] ELSE m1[k]]

pop(m, k) == [x \in (DOMAIN m) \ {k} |-> m[x]]

put(m, k, v) == [x \in (DOMAIN m) \cup {k} |-> IF x = k THEN v ELSE m[x]]

\* an insertion-ordered dict whose keys are compared by the code: a sequence
\* of [key, val]; assigning an existing key keeps its position
HasKey(d, k) == \E i \in DOMAIN d : d[i].key = k

Lookup(d, k) == d[CHOOSE i \in DOMAIN d : d[i].key = k].val

\* variant with a slip: a key that is already there keeps its value
DictSet_kept(d, k, v) ==
    IF HasKey(d, k) THEN d ELSE Append(d, [key |-> k, val |-> v])

DictSet(d, k, v) ==
    IF HasKey(d, k) THEN [i \in DOMAIN d |-> IF d[i].key = k THEN [key |-> k, val |-> v] ELSE d[i]]
    ELSE Append(d, [key |-> k, val |-> v])

Keys(d) == {d[i].key : i \in DOMAIN d}

\* ------------------------------------------------- names the code spells out
N_kwargs == <<"k","w","a","r","g","s">>
N_dry_run == <<"d","r","y","_","r","u","n">>
N_body == <<"b","o","d","y">>
N_Authorization == <<"A","u","t","h","o","r","i","z","a","t","i","o","n">>
N_User_Agent == <<"U","s","e","r","-","A","g","e","n","t">>
UserAgentDefault == <<"O","p","e","n","A","P","I","-","M","C","P","/","1",".","0">>
BearerPrefix == <<"B","e","a","r","e","r"," ">>

\* ------------------------------------------------------ get_oauth_access_token
\* variant with a slip: the client secret is not looked at
OAuthConfigured_no_secret(env) == env.OAUTH_CLIENT_ID /\ env.OAUTH_TOKEN_URL

\* the OAuth entries of environ are TRUE when the variable is set and non-empty
OAuthConfigured(env) == env.OAUTH_CLIENT_ID /\ env.OAUTH_CLIENT_SECRET /\ env.OAUTH_TOKEN_URL

\* variant with a slip: a failed exchange is passed over, the call goes on without a token
get_oauth_access_token_fallback(cache, t, env, resp, d) ==
    LET token == get_token(cache, t)
    IN IF Truthy(token)
       THEN [ret |-> token, cache |-> cache, net |-> <<>>, exit |-> FALSE, now |-> t, source |-> "cache"]
       ELSE IF OAuthConfigured(env)
            THEN IF resp.ok
                 THEN LET expires == IF resp.has_expires_in THEN resp.expires_in ELSE DefaultExpires
                      IN [ret |-> resp.access_token,
                          cache |-> set_token(cache, resp.access_token, expires, t + d),
                          net |-> <<"token">>, exit |-> FALSE, now |-> t + d, source |-> "exchange"]
                 ELSE [ret |-> None, cache |-> cache, net |-> <<"token">>, exit |-> FALSE,
                       now |-> t + d, source |-> "exchange"]
            ELSE [ret |-> None, cache |-> cache, net |-> <<>>, exit |-> FALSE, now |-> t, source |-> "unconfigured"]

\* resp is the token endpoint's answer, d the time the exchange takes.
\* Result: the returned token, the cache afterwards, the network calls made,
\* whether sys.exit was reached, the time afterwards, where the token came from.
get_oauth_access_token(cache, t, env, resp, d) ==
    LET token == get_token(cache, t)
    IN IF Truthy(token)
       THEN [ret |-> token, cache |-> cache, net |-> <<>>, exit |-> FALSE, now |-> t, source |-> "cache"]
       ELSE IF OAuthConfigured(env)
            THEN IF resp.ok
                 THEN LET expires == IF resp.has_expires_in THEN resp.expires_in ELSE DefaultExpires
                      IN [ret |-> resp.access_token,
                          cache |-> set_token(cache, resp.access_token, expires, t + d),
                          net |-> <<"token">>, exit |-> FALSE, now |-> t + d, source |-> "exchange"]
                 ELSE [ret |-> None, cache |-> cache, net |-> <<"token">>, exit |-> TRUE,
                       now |-> t + d, source |-> "exchange"]
            ELSE [ret |-> None, cache |-> cache, net |-> <<>>, exit |-> FALSE, now |-> t, source |-> "unconfigured"]

\* ------------------------------------------------------- parse_kwargs_string
\* s.split(c)
RECURSIVE split(_, _)
split(s, c) ==
    IF FirstPos(s, c) = 0 THEN <<s>>
    ELSE <<SubSeq(s, 1, FirstPos(s, c) - 1)>> \o split(SubSeq(s, FirstPos(s, c) + 1, Len(s)), c)

\* re.sub with the pattern for leading and trailing backticks
\* the backtick character
BT == "bt"

StripBackticks(s) == rstrip(lstrip(s, BT), BT)

\* urllib.parse.parse_qsl followed by dict(): pairs split on ampersands, name and
\* value on the first equals sign, blank values dropped, a later pair overwrites
RECURSIVE qsl_dict(_, _)
qsl_dict(pairs, acc) ==
    IF pairs = <<>> THEN acc
    ELSE LET p == Head(pairs)
             eq == FirstPos(p, "=")
             name == IF eq = 0 THEN p ELSE SubSeq(p, 1, eq - 1)
             value == IF eq = 0 THEN <<>> ELSE SubSeq(p, eq + 1, Len(p))
         IN IF value = <<>> THEN qsl_dict(Tail(pairs), acc)
            ELSE qsl_dict(Tail(pairs), put(acc, name, Str(value)))

\* the comma-separated fallback
RECURSIVE comma_dict(_, _)
comma_dict(pairs, acc) ==
    IF pairs = <<>> THEN acc
    ELSE LET p == StripSpaces(Head(pairs))
             eq == FirstPos(p, "=")
             key == StripSpaces(SubSeq(p, 1, eq - 1))
             value == StripSpaces(SubSeq(p, eq + 1, Len(p)))
             num == int(Str(value))
         IN IF p = <<>> \/ eq = 0 THEN comma_dict(Tail(pairs), acc)
            ELSE comma_dict(Tail(pairs), put(acc, key, IF num.ok THEN num.v ELSE Str(value)))

\* Strings without an opening brace never parse to a JSON object and have no {...}
\* substring, so for them the JSON attempts all fall through; the strings
\* of the model (KwargsStrings) contain no brace.
parse_kwargs_string(raw) ==
    LET Pairs(s) ==
            LET parsed_qsl == qsl_dict(split(s, "&"), EmptyMap)
                result == comma_dict(split(s, ","), EmptyMap)
            IN IF DOMAIN parsed_qsl # {} THEN parsed_qsl
               ELSE IF "," \in Range(s) /\ "&" \notin Range(s) /\ DOMAIN result # {} THEN result
               ELSE EmptyMap
        Query(s1) == Pairs(IF s1 # <<>> /\ Head(s1) = "?" THEN Tail(s1) ELSE s1)
    IN Query(StripBackticks(StripSpaces(raw)))

\* ------------------------------------------------------------- envelopes
\* an f-string or str(e) message: its fixed text and the value formatted in
Message(fmt, arg) == [fmt |-> fmt, arg |-> arg]

ErrorEnvelope(req_id, code, message) ==
    [jsonrpc |-> "2.0", id |-> req_id, error |-> [code |-> code, message |-> message]]

ResultEnvelope(req_id, result) == [jsonrpc |-> "2.0", id |-> req_id, result |-> result]

\* variant with a slip: the result key is kept beside the error
build_response_both(req_id, result, error) ==
    IF error.given THEN [jsonrpc |-> "2.0", id |-> req_id, result |-> result, error |-> error.value]
    ELSE [jsonrpc |-> "2.0", id |-> req_id, result |-> result]

\* build_response of generate_tool_function; error is [given, value]
build_response(req_id, result, error) ==
    IF error.given THEN [jsonrpc |-> "2.0", id |-> req_id, error |-> error.value]
    ELSE [jsonrpc |-> "2.0", id |-> req_id, result |-> result]

NoError == [given |-> FALSE, value |-> [code |-> 0, message |-> Message("", <<>>)]]

\* ---------------------------------------------------------- _prepare_request
\* declared parameters: [name, in, required, type], with the defaults of
\* param.get("in", "query") and schema.get("type", "string") filled in
RequiredNames(parameters) ==
    LET F[i \in 0..Len(parameters)] ==
            IF i = 0 THEN <<>>
            ELSE IF parameters[i].required THEN Append(F[i-1], parameters[i].name) ELSE F[i-1]
    IN F[Len(parameters)]

\* variant with a slip: the names that are present are reported
SelectNotIn_present(names, kwargs) ==
    LET F[i \in 0..Len(names)] ==
            IF i = 0 THEN <<>>
            ELSE IF names[i] \in DOMAIN kwargs THEN Append(F[i-1], names[i]) ELSE F[i-1]
    IN F[Len(names)]

SelectNotIn(names, kwargs) ==
    LET F[i \in 0..Len(names)] ==
            IF i = 0 THEN <<>>
            ELSE IF names[i] \notin DOMAIN kwargs THEN Append(F[i-1], names[i]) ELSE F[i-1]
    IN F[Len(names)]

\* the conversion of one supplied value to the declared type: [ok, v]
Convert(p_type, val) ==
    CASE p_type = "integer" -> int(val)
      [] p_type = "number" -> float(val)
      [] p_type = "boolean" -> [ok |-> TRUE, v |-> PyBool(lower(str(val)) \in TruthyForms)]
      [] OTHER -> [ok |-> TRUE, v |-> val]

\* variant with a slip: every argument is passed on in the query
RECURSIVE Bind_forwarding(_, _, _)
Bind_forwarding(parameters, kwargs, acc) ==
    IF parameters = <<>> THEN [acc EXCEPT !.req_params = update(kwargs, acc.req_params)]
    ELSE LET param == Head(parameters)
             name == param.name
         IN IF name \notin DOMAIN kwargs THEN Bind_forwarding(Tail(parameters), kwargs, acc)
            ELSE LET c == Convert(param.type, kwargs[name])
                     val == c.v
                 IN IF ~c.ok THEN [acc EXCEPT !.failed = TRUE, !.name = name]
                    ELSE Bind_forwarding(Tail(parameters), kwargs,
                           CASE param.in = "path" ->
                                   [acc EXCEPT !.path = replace(acc.path, <<"{">> \o name \o <<"}">>, str(val))]
                             [] param.in = "query" -> [acc EXCEPT !.req_params = put(acc.req_params, name, val)]
                             [] param.in = "header" -> [acc EXCEPT !.req_headers = put(acc.req_headers, name, val)]
                             [] param.in = "body" -> [acc EXCEPT !.req_body = val]
                             [] OTHER -> acc)

\* the binding loop over the declared parameters, in order; acc is
\* [path, req_params, req_headers, req_body, failed, name]
RECURSIVE Bind(_, _, _)
Bind(parameters, kwargs, acc) ==
    IF parameters = <<>> THEN acc
    ELSE LET param == Head(parameters)
             name == param.name
         IN IF name \notin DOMAIN kwargs THEN Bind(Tail(parameters), kwargs, acc)
            ELSE LET c == Convert(param.type, kwargs[name])
                     val == c.v
                 IN IF ~c.ok THEN [acc EXCEPT !.failed = TRUE, !.name = name]
                    ELSE Bind(Tail(parameters), kwargs,
                           CASE param.in = "path" ->
                                   [acc EXCEPT !.path = replace(acc.path, <<"{">> \o name \o <<"}">>, str(val))]
                             [] param.in = "query" -> [acc EXCEPT !.req_params = put(acc.req_params, name, val)]
                             [] param.in = "header" -> [acc EXCEPT !.req_headers = put(acc.req_headers, name, val)]
                             [] param.in = "body" -> [acc EXCEPT !.req_body = val]
                             [] OTHER -> acc)

NoPrep == [full_url |-> <<>>, req_params |-> EmptyMap, req_headers |-> EmptyMap,
           req_body |-> None, dry_run |-> PyFalse]

\* what a call did besides returning: the cache afterwards, the network
\* calls in order, the time afterwards, whether sys.exit was reached, where
\* the token came from ("none" when the credential lookup was not reached)
NoEffect(cache, t) == [cache |-> cache, net |-> <<>>, now |-> t, exit |-> FALSE, source |-> "none"]

\* variant with a slip: joined without stripping
JoinUrl_unstripped(server_url, path) == server_url \o <<"/">> \o path

\* full_url: the server URL and the bound path joined by one slash
JoinUrl(server_url, path) == rstrip(server_url, "/") \o <<"/">> \o lstrip(path, "/")

\* variant with a slip: User-Agent is assigned, not set by default
FinishHeaders_assigned(req_headers, token) ==
    put(IF Truthy(token) THEN put(req_headers, N_Authorization, Str(BearerPrefix \o token.s)) ELSE req_headers,
        N_User_Agent, Str(UserAgentDefault))

\* the headers after the binding loop: Authorization when there is a token,
\* req_headers.setdefault("User-Agent", ...)
FinishHeaders(req_headers, token) ==
    LET headers1 == IF Truthy(token) THEN put(req_headers, N_Authorization, Str(BearerPrefix \o token.s))
                    ELSE req_headers
    IN IF N_User_Agent \in DOMAIN headers1 THEN headers1
       ELSE put(headers1, N_User_Agent, Str(UserAgentDefault))

\* kwargs is the mapping passed as **kwargs without its entry kwargs when
\* that entry is a dict; kwdict is [given, map], that dict when given.
\* Result: the returned pair (prep, err) with has_err telling which one is
\* not None, the stage reached, the path after substitution, and the effects.
\* variant with a slip: the token is looked up before the conversion error is answered
_prepare_request_token_first(req_id, kwargs, kwdict, parameters, path, server_url, cache, t, env, resp, d) ==
    LET has_str == ~kwdict.given /\ N_kwargs \in DOMAIN kwargs /\ kwargs[N_kwargs].t = "str"
        raw == IF has_str THEN StripBackticks(kwargs[N_kwargs].s) ELSE <<>>
        \* the headers and the URL, once the parameters are bound
        Prepared(bound, tok, dry_run) ==
            LET headers2 == FinishHeaders(bound.req_headers, tok.ret)
            IN [prep |-> [full_url |-> JoinUrl(server_url, bound.path), req_params |-> bound.req_params,
                          req_headers |-> headers2, req_body |-> bound.req_body, dry_run |-> dry_run],
                has_err |-> FALSE, stage |-> "prepared", bound_path |-> bound.path,
                err |-> ResultEnvelope(req_id, [help |-> [fmt |-> "", names |-> <<>>]]),
                eff |-> [cache |-> tok.cache, net |-> tok.net, now |-> tok.now, exit |-> tok.exit,
                         source |-> tok.source]]
        \* after the binding loop
        Bound(bound, dry_run) ==
            IF bound.failed
            THEN [prep |-> NoPrep, has_err |-> TRUE, stage |-> "conversion", bound_path |-> bound.path,
                  err |-> ErrorEnvelope(req_id, -32602, Message("Parameter conversion error", bound.name)),
                  eff |-> LET tok == get_oauth_access_token(cache, t, env, resp, d)
                          IN [cache |-> tok.cache, net |-> tok.net, now |-> tok.now, exit |-> tok.exit,
                              source |-> tok.source]]
            ELSE Prepared(bound, get_oauth_access_token(cache, t, env, resp, d), dry_run)
        \* the required check, the dry_run pop and the binding loop
        Checked(kwargs1, missing) ==
            IF missing # <<>>
            THEN [prep |-> NoPrep, has_err |-> TRUE, stage |-> "required", bound_path |-> path,
                  err |-> ResultEnvelope(req_id, [help |-> [fmt |-> "Missing parameters", names |-> missing]]),
                  eff |-> NoEffect(cache, t)]
            ELSE Bound(Bind(parameters, pop(kwargs1, N_dry_run),
                            [path |-> path, req_params |-> EmptyMap, req_headers |-> EmptyMap,
                             req_body |-> None, failed |-> FALSE, name |-> <<>>]),
                       IF N_dry_run \in DOMAIN kwargs1 THEN kwargs1[N_dry_run] ELSE PyFalse)
        Merged(kwargs1) == Checked(kwargs1, SelectNotIn(RequiredNames(parameters), kwargs1))
        \* a kwargs string: parsed, and merged unless nothing was parsed
        Parsed(parsed_kwargs) ==
            IF DOMAIN parsed_kwargs = {}
            THEN [prep |-> NoPrep, has_err |-> TRUE, stage |-> "parse", bound_path |-> path,
                  err |-> ErrorEnvelope(req_id, -32602, Message("Could not parse kwargs string", raw)),
                  eff |-> NoEffect(cache, t)]
            ELSE Merged(update(pop(kwargs, N_kwargs), parsed_kwargs))
    IN IF has_str THEN Parsed(parse_kwargs_string(raw))
       ELSE Merged(IF kwdict.given THEN update(kwargs, kwdict.map) ELSE kwargs)

_prepare_request(req_id, kwargs, kwdict, parameters, path, server_url, cache, t, env, resp, d) ==
    LET has_str == ~kwdict.given /\ N_kwargs \in DOMAIN kwargs /\ kwargs[N_kwargs].t = "str"
        raw == IF has_str THEN StripBackticks(kwargs[N_kwargs].s) ELSE <<>>
        \* the headers and the URL, once the parameters are bound
        Prepared(bound, tok, dry_run) ==
            LET headers2 == FinishHeaders(bound.req_headers, tok.ret)
            IN [prep |-> [full_url |-> JoinUrl(server_url, bound.path), req_params |-> bound.req_params,
                          req_headers |-> headers2, req_body |-> bound.req_body, dry_run |-> dry_run],
                has_err |-> FALSE, stage |-> "prepared", bound_path |-> bound.path,
                err |-> ResultEnvelope(req_id, [help |-> [fmt |-> "", names |-> <<>>]]),
                eff |-> [cache |-> tok.cache, net |-> tok.net, now |-> tok.now, exit |-> tok.exit,
                         source |-> tok.source]]
        \* after the binding loop
        Bound(bound, dry_run) ==
            IF bound.failed
            THEN [prep |-> NoPrep, has_err |-> TRUE, stage |-> "conversion", bound_path |-> bound.path,
                  err |-> ErrorEnvelope(req_id, -32602, Message("Parameter conversion error", bound.name)),
                  eff |-> NoEffect(cache, t)]
            ELSE Prepared(bound, get_oauth_access_token(cache, t, env, resp, d), dry_run)
        \* the required check, the dry_run pop and the binding loop
        Checked(kwargs1, missing) ==
            IF missing # <<>>
            THEN [prep |-> NoPrep, has_err |-> TRUE, stage |-> "required", bound_path |-> path,
                  err |-> ResultEnvelope(req_id, [help |-> [fmt |-> "Missing parameters", names |-> missing]]),
                  eff |-> NoEffect(cache, t)]
            ELSE Bound(Bind(parameters, pop(kwargs1, N_dry_run),
                            [path |-> path, req_params |-> EmptyMap, req_headers |-> EmptyMap,
                             req_body |-> None, failed |-> FALSE, name |-> <<>>]),
                       IF N_dry_run \in DOMAIN kwargs1 THEN kwargs1[N_dry_run] ELSE PyFalse)
        Merged(kwargs1) == Checked(kwargs1, SelectNotIn(RequiredNames(parameters), kwargs1))
        \* a kwargs string: parsed, and merged unless nothing was parsed
        Parsed(parsed_kwargs) ==
            IF DOMAIN parsed_kwargs = {}
            THEN [prep |-> NoPrep, has_err |-> TRUE, stage |-> "parse", bound_path |-> path,
                  err |-> ErrorEnvelope(req_id, -32602, Message("Could not parse kwargs string", raw)),
                  eff |-> NoEffect(cache, t)]
            ELSE Merged(update(pop(kwargs, N_kwargs), parsed_kwargs))
    IN IF has_str THEN Parsed(parse_kwargs_string(raw))
       ELSE Merged(IF kwdict.given THEN update(kwargs, kwdict.map) ELSE kwargs)

\* ------------------------------------------------- generate_tool_function
\* answers of the target API to one request
Upstream == {"json", "text", "status_error", "transport_error"}

NoReturn == EmptyMap

\* variant with a slip: a request that failed is sent once more
tool_func_retrying(fn, req_id, kwargs, kwdict, cache, t, env, resp, d, up) ==
    LET Respond(r) ==
          LET request == [url |-> r.prep.full_url, method |-> fn.method, headers |-> r.prep.req_headers,
                          params |-> r.prep.req_params, body |-> r.prep.req_body]
          IN IF r.eff.exit
             THEN [returned |-> FALSE, ret |-> NoReturn, stage |-> "exit", prep |-> r.prep,
                   bound_path |-> r.bound_path, eff |-> r.eff, upstream |-> "none"]
             ELSE IF r.has_err
             THEN [returned |-> TRUE, ret |-> r.err, stage |-> r.stage, prep |-> r.prep,
                   bound_path |-> r.bound_path, eff |-> r.eff, upstream |-> "none"]
             ELSE IF Truthy(r.prep.dry_run)
             THEN [returned |-> TRUE,
                   ret |-> build_response(req_id, [dry_run |-> TRUE, request |-> request], NoError),
                   stage |-> "dry_run", prep |-> r.prep, bound_path |-> r.bound_path, eff |-> r.eff,
                   upstream |-> "none"]
             ELSE [returned |-> TRUE,
                   ret |-> CASE up = "json" -> build_response(req_id, [data |-> [json |-> "payload"]], NoError)
                             [] up = "text" -> build_response(req_id, [data |-> [raw_response |-> "text"]], NoError)
                             [] OTHER -> build_response(req_id, [data |-> None],
                                             [given |-> TRUE,
                                              value |-> [code |-> -32603, message |-> Message("str(e)", <<>>)]]),
                   stage |-> "live", prep |-> r.prep, bound_path |-> r.bound_path,
                   eff |-> [r.eff EXCEPT !.net = IF up \in {"json", "text"} THEN Append(r.eff.net, "api")
                                               ELSE r.eff.net \o <<"api", "api">>],
                   upstream |-> up]
    IN Respond(_prepare_request(req_id, kwargs, kwdict, fn.parameters, fn.path, fn.server_url,
                                cache, t, env, resp, d))

\* fn is the closure: [kind, op_id, method, path, parameters, server_url].
\* Result: whether a value was returned, the value, the stage reached, the
\* prepared request, the effects, how the request to the API ended.
tool_func(fn, req_id, kwargs, kwdict, cache, t, env, resp, d, up) ==
    LET Respond(r) ==
          LET request == [url |-> r.prep.full_url, method |-> fn.method, headers |-> r.prep.req_headers,
                          params |-> r.prep.req_params, body |-> r.prep.req_body]
          IN IF r.eff.exit
             THEN [returned |-> FALSE, ret |-> NoReturn, stage |-> "exit", prep |-> r.prep,
                   bound_path |-> r.bound_path, eff |-> r.eff, upstream |-> "none"]
             ELSE IF r.has_err
             THEN [returned |-> TRUE, ret |-> r.err, stage |-> r.stage, prep |-> r.prep,
                   bound_path |-> r.bound_path, eff |-> r.eff, upstream |-> "none"]
             ELSE IF Truthy(r.prep.dry_run)
             THEN [returned |-> TRUE,
                   ret |-> build_response(req_id, [dry_run |-> TRUE, request |-> request], NoError),
                   stage |-> "dry_run", prep |-> r.prep, bound_path |-> r.bound_path, eff |-> r.eff,
                   upstream |-> "none"]
             ELSE [returned |-> TRUE,
                   ret |-> CASE up = "json" -> build_response(req_id, [data |-> [json |-> "payload"]], NoError)
                             [] up = "text" -> build_response(req_id, [data |-> [raw_response |-> "text"]], NoError)
                             [] OTHER -> build_response(req_id, [data |-> None],
                                             [given |-> TRUE,
                                              value |-> [code |-> -32603, message |-> Message("str(e)", <<>>)]]),
                   stage |-> "live", prep |-> r.prep, bound_path |-> r.bound_path,
                   eff |-> [r.eff EXCEPT !.net = Append(r.eff.net, "api")], upstream |-> up]
    IN Respond(_prepare_request(req_id, kwargs, kwdict, fn.parameters, fn.path, fn.server_url,
                                cache, t, env, resp, d))

\* ------------------------------------------------------ the standard tools
N_name == <<"n","a","m","e">>
N_arguments == <<"a","r","g","u","m","e","n","t","s">>

StdFunction(kind) == [kind |-> kind, op_id |-> <<>>, method |-> <<>>, path |-> <<>>,
                      parameters |-> <<>>, server_url |-> <<>>]

Returned(ret, stage, cache, t) ==
    [returned |-> TRUE, ret |-> ret, stage |-> stage, prep |-> NoPrep, bound_path |-> <<>>,
     eff |-> NoEffect(cache, t), upstream |-> "none"]

initialize_tool(req_id) == ResultEnvelope(req_id, [protocolVersion |-> "2024-11-05"])

tools_list_tool(req_id, tools) == ResultEnvelope(req_id, [tools |-> [i \in DOMAIN tools |-> tools[i].key]])

NoKwdict == [given |-> FALSE, map |-> EmptyMap]

\* variant with a slip: an unknown name is not answered before the lookup
RECURSIVE tools_call_tool_unchecked(_, _, _, _, _, _, _, _, _, _, _, _)
tools_call_tool_unchecked(tools, srv, req_id, name, kwargs, kwdict, cache, t, env, resp, d, up) ==
    LET prefixed_name == srv \o <<"_">> \o str(name)
        direct == name.t = "str" /\ HasKey(tools, name.s)
        found == IF direct THEN name.s ELSE prefixed_name
        func == Lookup(tools, found)
        internal == Returned(ErrorEnvelope(req_id, -32603, Message("str(e)", <<>>)), "exception", cache, t)
    IN IF ~Truthy(name)
       THEN Returned(ErrorEnvelope(req_id, -32602, Message("Missing tool name", <<>>)), "no_name", cache, t)
       ELSE IF ~direct /\ ~HasKey(tools, prefixed_name)
       THEN internal
       ELSE CASE func.kind = "api" ->
                    tool_func(func, req_id, kwargs, kwdict, cache, t, env, resp, d, up)
              [] func.kind = "initialize" ->
                    Returned(initialize_tool(req_id), "initialize", cache, t)
              [] func.kind = "tools_list" ->
                    IF DOMAIN kwargs = {} /\ ~kwdict.given
                    THEN Returned(tools_list_tool(req_id, tools), "tools_list", cache, t)
                    ELSE internal
              [] OTHER ->
                    IF kwdict.given \/ ~((DOMAIN kwargs) \subseteq {N_name, N_arguments})
                    THEN internal
                    ELSE IF N_arguments \in DOMAIN kwargs /\ Truthy(kwargs[N_arguments])
                    THEN internal
                    ELSE tools_call_tool_unchecked(tools, srv, req_id,
                                         IF N_name \in DOMAIN kwargs THEN kwargs[N_name] ELSE None,
                                         EmptyMap, NoKwdict, cache, t, env, resp, d, up)

\* name is a Python value (None when not given); kwargs and kwdict are the
\* arguments mapping, as for tool_func. A nested tools_call receives name and
\* arguments as keywords; in the model a nested arguments value is never a
\* dict, so the nesting ends after one level.
RECURSIVE tools_call_tool(_, _, _, _, _, _, _, _, _, _, _, _)
tools_call_tool(tools, srv, req_id, name, kwargs, kwdict, cache, t, env, resp, d, up) ==
    LET prefixed_name == srv \o <<"_">> \o str(name)
        direct == name.t = "str" /\ HasKey(tools, name.s)
        found == IF direct THEN name.s ELSE prefixed_name
        func == Lookup(tools, found)
        internal == Returned(ErrorEnvelope(req_id, -32603, Message("str(e)", <<>>)), "exception", cache, t)
    IN IF ~Truthy(name)
       THEN Returned(ErrorEnvelope(req_id, -32602, Message("Missing tool name", <<>>)), "no_name", cache, t)
       ELSE IF ~direct /\ ~HasKey(tools, prefixed_name)
       THEN Returned(ErrorEnvelope(req_id, -32601, Message("Tool not found", str(name))), "unknown", cache, t)
       ELSE CASE func.kind = "api" ->
                    tool_func(func, req_id, kwargs, kwdict, cache, t, env, resp, d, up)
              [] func.kind = "initialize" ->
                    Returned(initialize_tool(req_id), "initialize", cache, t)
              [] func.kind = "tools_list" ->
                    IF DOMAIN kwargs = {} /\ ~kwdict.given
                    THEN Returned(tools_list_tool(req_id, tools), "tools_list", cache, t)
                    ELSE internal
              [] OTHER ->
                    IF kwdict.given \/ ~((DOMAIN kwargs) \subseteq {N_name, N_arguments})
                    THEN internal
                    ELSE IF N_arguments \in DOMAIN kwargs /\ Truthy(kwargs[N_arguments])
                    THEN internal
                    ELSE tools_call_tool(tools, srv, req_id,
                                         IF N_name \in DOMAIN kwargs THEN kwargs[N_name] ELSE None,
                                         EmptyMap, NoKwdict, cache, t, env, resp, d, up)

\* ------------------------------------------------------------ sanitize_name
NameChars == Range(Lowers) \cup Range(Uppers) \cup Range(Digits) \cup {"_", "-"}

Take(s, n) == IF Len(s) <= n THEN s ELSE SubSeq(s, 1, n)

\* variant with a slip: the result is not cut to the limit
sanitize_name_uncut(name) == [i \in DOMAIN name |-> IF name[i] \in NameChars THEN name[i] ELSE "_"]

sanitize_name(name) == Take([i \in DOMAIN name |-> IF name[i] \in NameChars THEN name[i] ELSE "_"], MaxNameLen)

\* sanitize_tool_name(name, server_prefix); prefix <<>> is None
sanitize_tool_name(name, server_prefix) ==
    IF server_prefix # <<>> THEN sanitize_name(server_prefix \o <<"_">> \o name) ELSE sanitize_name(name)

\* ----------------------------------------------------------------- urlparse
\* urllib.parse.urlparse of scheme://netloc/path (the model has no query or
\* fragment in a spec URL)
urlparse(url) ==
    LET colon == FirstPos(url, ":")
        rest == SubSeq(url, colon + 3, Len(url))
        slash == FirstPos(rest, "/")
    IN [scheme |-> lower(SubSeq(url, 1, colon - 1)),
        netloc |-> IF slash = 0 THEN rest ELSE SubSeq(rest, 1, slash - 1),
        path |-> IF slash = 0 THEN <<>> ELSE SubSeq(rest, slash, Len(rest))]

S_http == <<"h","t","t","p",":","/","/">>
S_https == <<"h","t","t","p","s",":","/","/">>

\* ------------------------------------------------------------- load_openapi
HttpMethods == {<<"g","e","t">>, <<"p","o","s","t">>, <<"p","u","t">>, <<"d","e","l","e","t","e">>,
                <<"p","a","t","c","h">>, <<"h","e","a","d">>, <<"o","p","t","i","o","n","s">>}

EmptySpec == [fetch |-> "none", is_dict |-> FALSE, has_paths |-> FALSE, has_info |-> FALSE,
              title |-> "absent", servers |-> [kind |-> "absent", urls |-> <<>>], paths |-> <<>>]

LoadFailed == [raised |-> FALSE, spec |-> EmptySpec, server_url |-> <<>>, ops_info |-> <<>>]

\* the first url of servers: servers[0].get("url", "") of a non-empty list,
\* servers.get("url", "") of an object; a missing url key is the empty text
ServersUrl(servers) ==
    IF servers.kind \in {"list", "dict"} /\ servers.urls # <<>> THEN servers.urls[1] ELSE <<>>

\* variant with a slip: a url starting with a slash is not put on the host of the spec
ResolveServerUrl_rootless(openapi_url, servers) ==
    LET parsed == urlparse(openapi_url)
        raw0 == ServersUrl(servers)
        base == rsplit_head(parsed.path, "/")
        raw_url == IF raw0 = <<>> THEN parsed.scheme \o <<":","/","/">> \o parsed.netloc \o base ELSE raw0
    IN IF ~(startswith(raw_url, S_http) \/ startswith(raw_url, S_https)) THEN S_https \o raw_url
       ELSE raw_url

\* variant with a slip: a url without a scheme is taken as it is
ResolveServerUrl_schemeless(openapi_url, servers) ==
    LET parsed == urlparse(openapi_url)
        raw0 == ServersUrl(servers)
        base == rsplit_head(parsed.path, "/")
        raw_url == IF raw0 = <<>> THEN parsed.scheme \o <<":","/","/">> \o parsed.netloc \o base ELSE raw0
    IN IF startswith(raw_url, <<"/">>) THEN parsed.scheme \o <<":","/","/">> \o parsed.netloc \o raw_url
       ELSE raw_url

ResolveServerUrl(openapi_url, servers) ==
    LET parsed == urlparse(openapi_url)
        raw0 == ServersUrl(servers)
        base == rsplit_head(parsed.path, "/")
        raw_url == IF raw0 = <<>> THEN parsed.scheme \o <<":","/","/">> \o parsed.netloc \o base ELSE raw0
    IN IF startswith(raw_url, <<"/">>) THEN parsed.scheme \o <<":","/","/">> \o parsed.netloc \o raw_url
       ELSE IF ~(startswith(raw_url, S_http) \/ startswith(raw_url, S_https)) THEN S_https \o raw_url
       ELSE raw_url

BodyParameter(req_body) == [name |-> N_body, in |-> "body", required |-> req_body.required, type |-> req_body.type]

\* the operation loop, in document order; entries are [path, method, op]
RECURSIVE BuildOps(_, _)
BuildOps(entries, ops_info) ==
    IF entries = <<>> THEN ops_info
    ELSE LET e == Head(entries)
             op == e.op
             parameters == IF op.requestBody.given THEN Append(op.parameters, BodyParameter(op.requestBody))
                           ELSE op.parameters
             fallback == e.method \o <<"_">> \o
                         replace(replace(replace(e.path, <<"/">>, <<"_">>), <<"{">>, <<>>), <<"}">>, <<>>)
             raw_op_id == IF Truthy(op.operationId) THEN op.operationId.s ELSE fallback
             sanitized_op_id == sanitize_tool_name(raw_op_id, <<>>)
         IN IF lower(e.method) \notin HttpMethods THEN BuildOps(Tail(entries), ops_info)
            ELSE BuildOps(Tail(entries),
                          DictSet(ops_info, sanitized_op_id,
                                  [parameters |-> parameters, path |-> e.path, method |-> upper(e.method)]))

\* variant with a slip: only a document that lacks both keys is turned down
load_openapi_lacks_both(openapi_url, doc) ==
    IF doc.fetch # "ok" THEN LoadFailed
    ELSE IF ~doc.is_dict \/ (~doc.has_paths /\ ~doc.has_info) THEN LoadFailed
    ELSE IF doc.title = "blank" THEN [LoadFailed EXCEPT !.raised = TRUE]
    ELSE [raised |-> FALSE, spec |-> doc, server_url |-> ResolveServerUrl(openapi_url, doc.servers),
          ops_info |-> BuildOps(doc.paths, <<>>)]

\* doc is what the fetch of openapi_url produced.  Result: the returned
\* triple, or raised when an exception leaves the function.
load_openapi(openapi_url, doc) ==
    IF doc.fetch # "ok" THEN LoadFailed
    ELSE IF ~doc.is_dict \/ ~doc.has_paths \/ ~doc.has_info THEN LoadFailed
    ELSE IF doc.title = "blank" THEN [LoadFailed EXCEPT !.raised = TRUE]
    ELSE [raised |-> FALSE, spec |-> doc, server_url |-> ResolveServerUrl(openapi_url, doc.servers),
          ops_info |-> BuildOps(doc.paths, <<>>)]

\* ------------------------------------------------------------------ add_tool
add_tool(tools, srv, name, func) == DictSet(tools, sanitize_tool_name(srv \o <<"_">> \o name, <<>>), func)

N_initialize == <<"i","n","i","t","i","a","l","i","z","e">>
N_tools_list == <<"t","o","o","l","s","_","l","i","s","t">>
N_tools_call == <<"t","o","o","l","s","_","c","a","l","l">>

\* the registration loop of register_openapi_tools over ops_info
RECURSIVE RegisterOps(_, _, _, _)
RegisterOps(ops_info, server_url, srv, tools) ==
    IF ops_info = <<>> THEN tools
    ELSE LET op_id == Head(ops_info).key
             info == Head(ops_info).val
             func == [kind |-> "api", op_id |-> op_id, method |-> info.method, path |-> info.path,
                      parameters |-> info.parameters, server_url |-> server_url]
         IN RegisterOps(Tail(ops_info), server_url, srv, add_tool(tools, srv, op_id, func))

RegisterStandard(tools, srv) ==
    add_tool(add_tool(add_tool(tools, srv, N_initialize, StdFunction("initialize")),
                      srv, N_tools_list, StdFunction("tools_list")),
             srv, N_tools_call, StdFunction("tools_call"))

\* ------------------------------------------------------------------ inputs
\* the environment: OPENAPI_URL, and which OAuth variables are set
U_spec == <<"h","t","t","p","s",":","/","/","h","o","s","t","/","a","p","i","/","o","p","e","n","a","p","i",".","j","s","o","n">>

Environ(url, cid, csec, token_url) ==
    [OPENAPI_URL |-> url, OAUTH_CLIENT_ID |-> cid, OAUTH_CLIENT_SECRET |-> csec, OAUTH_TOKEN_URL |-> token_url]

Environs == {Environ(U_spec, TRUE, TRUE, TRUE), Environ(U_spec, FALSE, FALSE, FALSE),
             Environ(U_spec, TRUE, FALSE, TRUE)}

ServerNames == {<<"s","r","v">>}

\* declared parameters
Param(name, loc, required, type) == [name |-> name, in |-> loc, required |-> required, type |-> type]

P_id == Param(<<"i","d">>, "path", TRUE, "integer")
P_limit == Param(<<"l","i","m","i","t">>, "query", FALSE, "integer")
P_user_agent == Param(N_User_Agent, "header", FALSE, "string")

NoBody == [given |-> FALSE, required |-> FALSE, type |-> "string"]

Op(operationId, parameters, requestBody) ==
    [operationId |-> operationId, parameters |-> parameters, requestBody |-> requestBody]

Entry(path, method, op) == [path |-> path, method |-> method, op |-> op]

Document(servers, paths) ==
    [fetch |-> "ok", is_dict |-> TRUE, has_paths |-> TRUE, has_info |-> TRUE, title |-> "text",
     servers |-> servers, paths |-> paths]

Servers(kind, urls) == [kind |-> kind, urls |-> urls]

\* servers with a trailing slash, paths with and without a leading slash
DocWidgets ==
    Document(Servers("list", <<<<"h","t","t","p","s",":","/","/","h","o","s","t","/","a","p","i","/">>>>),
             <<Entry(<<"/","w","i","d","g","e","t","s","/","{","i","d","}">>, <<"g","e","t">>, Op(Str(<<"g","e","t","W","i","d","g","e","t">>), <<P_id, P_limit, P_user_agent>>, NoBody)),
               Entry(<<"i","t","e","m","s">>, <<"g","e","t">>, Op(Str(<<"l","i","s","t","I","t","e","m","s">>), <<P_limit>>, NoBody))>>)

\* no servers entry: the server URL is the directory of the spec URL
DocPlain ==
    Document(Servers("absent", <<>>),
             <<Entry(<<"w","i","d","g","e","t","s","/","{","i","d","}">>, <<"g","e","t">>, Op(Str(<<"g","e","t"," ","w","i","d","g","e","t","!">>), <<P_id, P_limit>>, NoBody)),
               Entry(<<"/","i","t","e","m","s">>, <<"P","O","S","T">>, Op(None, <<>>, [given |-> TRUE, required |-> TRUE, type |-> "object"]))>>)

DocUnreachable == [EmptySpec EXCEPT !.fetch = "fail"]

ServedDocuments == {DocWidgets, DocPlain, DocUnreachable}

\* answers of the token endpoint: a failure, or a JSON object
TokenResponse(ok, access_token, has_expires_in, expires_in) ==
    [ok |-> ok, access_token |-> access_token, has_expires_in |-> has_expires_in, expires_in |-> expires_in]

T1 == Str(<<"t","1">>)
T2 == Str(<<"t","2">>)

NoResponse == TokenResponse(TRUE, None, FALSE, -1)

TokenResponses ==
    {TokenResponse(TRUE, tok, TRUE, L) : tok \in {T1, T2}, L \in 0..MaxLifetime}
    \cup {TokenResponse(TRUE, None, TRUE, 1), TokenResponse(TRUE, T1, FALSE, 0),
          TokenResponse(FALSE, None, FALSE, 0)}

\* the answers used where the credentials are not the subject
BasicResponses == {TokenResponse(TRUE, T1, TRUE, MaxLifetime), TokenResponse(FALSE, None, FALSE, 0)}

ExchangeDelays == {0, 1}

ReqIds == {"r1"}

\* the arguments of a call: the keyword mapping, and the entry kwargs of it
\* when that entry is a dict
Kwdict(map) == [given |-> TRUE, map |-> map]

Args(kwargs, kwdict) == [kwargs |-> kwargs, kwdict |-> kwdict]

ArgumentsPlain ==
  {
    Args((<<"i","d">> :> Str(<<"8">>) @@ <<"d","r","y","_","r","u","n">> :> PyTrue), NoKwdict),
    Args(EmptyMap, NoKwdict),
    Args((<<"i","d">> :> Str(<<"7">>)), NoKwdict),
    Args((<<"l","i","m","i","t">> :> Str(<<"5">>)), NoKwdict),
    Args((<<"l","i","m","i","t">> :> Str(<<"a","b","c">>)), NoKwdict),
    Args((<<"i","d">> :> Str(<<"7">>) @@ <<"l","i","m","i","t">> :> Str(<<"5">>)), NoKwdict),
    Args((<<"i","d">> :> Str(<<"7">>) @@ <<"l","i","m","i","t">> :> Str(<<"a","b","c">>)), NoKwdict),
    Args((<<"d","r","y","_","r","u","n">> :> PyTrue), NoKwdict),
    Args((<<"i","d">> :> Str(<<"7">>) @@ <<"d","r","y","_","r","u","n">> :> PyTrue), NoKwdict),
    Args((<<"i","d">> :> Str(<<"7">>) @@ <<"l","i","m","i","t">> :> Str(<<"5">>) @@ <<"d","r","y","_","r","u","n">> :> PyTrue), NoKwdict),
    Args((<<"i","d">> :> Str(<<"7">>) @@ <<"d","r","y","_","r","u","n">> :> Str(<<"f","a","l","s","e">>)), NoKwdict)
  }

ArgumentsStrings ==
  {
    Args((<<"k","w","a","r","g","s">> :> Str(<<"l","i","m","i","t","=","5">>)), NoKwdict),
    Args((<<"k","w","a","r","g","s">> :> Str(<<"z","z","z">>)), NoKwdict),
    Args((<<"k","w","a","r","g","s">> :> Str(<<BT,"i","d","=","7","&","d","r","y","_","r","u","n","=","1",BT>>)), NoKwdict),
    Args((<<"k","w","a","r","g","s">> :> Str(<<"l","i","m","i","t","=","a","b","c">>) @@ <<"i","d">> :> Str(<<"7">>)), NoKwdict)
  }

ArgumentsOther ==
  {
    Args((<<"b","o","d","y">> :> Str(<<"p","a","y","l","o","a","d">>) @@ <<"d","r","y","_","r","u","n">> :> PyTrue), NoKwdict),
    Args((<<"U","s","e","r","-","A","g","e","n","t">> :> Str(<<"u","a">>) @@ <<"i","d">> :> Str(<<"7">>) @@ <<"d","r","y","_","r","u","n">> :> PyTrue), NoKwdict),
    Args((<<"z","z">> :> Str(<<"1">>) @@ <<"i","d">> :> PyInt(<<"7">>) @@ <<"l","i","m","i","t">> :> Str(<<" ","0","5"," ">>) @@ <<"d","r","y","_","r","u","n">> :> PyTrue), NoKwdict),
    Args((<<"k","w","a","r","g","s">> :> PyInt(<<"3">>) @@ <<"i","d">> :> Str(<<"7">>)), NoKwdict),
    Args((<<"l","i","m","i","t">> :> Str(<<"5">>)), Kwdict((<<"i","d">> :> Str(<<"7">>) @@ <<"d","r","y","_","r","u","n">> :> PyTrue)))
  }

Arguments == ArgumentsPlain \cup ArgumentsStrings \cup ArgumentsOther

\* the arguments used where the credentials are the subject
AuthArguments ==
  {
    Args(EmptyMap, NoKwdict),
    Args((<<"i","d">> :> Str(<<"7">>)), NoKwdict),
    Args((<<"i","d">> :> Str(<<"7">>) @@ <<"d","r","y","_","r","u","n">> :> PyTrue), NoKwdict)
  }

\* the arguments mappings given to tools_call
ToolsCallArguments ==
  {
    Args(EmptyMap, NoKwdict),
    Args((<<"i","d">> :> Str(<<"7">>) @@ <<"d","r","y","_","r","u","n">> :> PyTrue), NoKwdict),
    Args((<<"l","i","m","i","t">> :> Str(<<"a","b","c">>) @@ <<"i","d">> :> Str(<<"7">>)), NoKwdict),
    Args((<<"n","a","m","e">> :> Str(<<"n","o","p","e">>)), NoKwdict),
    Args((<<"n","a","m","e">> :> Str(<<"s","r","v","_","i","n","i","t","i","a","l","i","z","e">>) @@ <<"a","r","g","u","m","e","n","t","s">> :> Str(<<"x">>)), NoKwdict)
  }

\* ------------------------------------------------------------ specification
NoOut == [returned |-> FALSE, ret |-> NoReturn, stage |-> "none", prep |-> NoPrep, bound_path |-> <<>>,
          eff |-> NoEffect(OAuthCache, 0), upstream |-> "none"]

NoCall == [entry |-> "none", name |-> None, req_id |-> "r1", kwargs |-> EmptyMap, kwdict |-> NoKwdict,
           resp |-> NoResponse, out |-> NoOut]

NoCliReq == [url_full |-> <<>>, query |-> EmptyMap, body |-> None, dry_run |-> FALSE, sent |-> 0]

NoCliRet == [kind |-> "none", text |-> "", names |-> <<>>, pages |-> <<>>]

\* the threads that may be inside get_oauth_access_token at once
Callers == {"c1", "c2"}

\* a caller outside get_oauth_access_token; ret is what its latest call returned
IdleCaller == [pc |-> "idle", resp |-> NoResponse, ret |-> None]

\* no exchange answered yet
NoToken == [at |-> 0, expires_in |-> 0, access_token |-> None, any |-> FALSE]

\* the JSON-RPC command line before its tool function was invoked
NoRpc == [called |-> FALSE, operation_id |-> <<>>, kwargs |-> EmptyMap, oauth |-> "unset",
          out |-> [kind |-> "none", member |-> "none", payload |-> "none", exc |-> "none", sent |-> FALSE]]

InitWith(envs, names) ==
    /\ phase = "init"
    /\ environ \in envs
    /\ server_name \in names
    /\ now = 0
    /\ oauth_cache = OAuthCache
    /\ openapi_spec = EmptySpec
    /\ operations_info = <<>>
    /\ registered_tools = <<>>
    /\ api_server_url = <<>>
    /\ ncalls = 0
    /\ lookups = 0
    /\ exchanges = 0
    /\ token_issued = NoToken
    /\ last = NoCall
    /\ cli_pc = "idle"
    /\ cli_kwargs = EmptyMap
    /\ cli_req = NoCliReq
    /\ current_page = 0
    /\ results = <<>>
    /\ cli_log = <<>>
    /\ cli_ret = NoCliRet
    /\ callers = [c \in Callers |-> IdleCaller]
    /\ fetched = EmptySpec
    /\ rpc = NoRpc

Init == InitWith(Environs, ServerNames)

\* MCPServer.register_openapi_tools, as main() runs it once before serving;
\* doc is the outcome of fetching OPENAPI_URL
register_openapi_tools(doc) ==
    LET Loaded(r) ==
          /\ openapi_spec' = r.spec
          /\ operations_info' = r.ops_info
          /\ api_server_url' = r.server_url
          /\ registered_tools' = RegisterStandard(RegisterOps(r.ops_info, r.server_url, server_name, <<>>),
                                                  server_name)
        Caught(loaded) == Loaded(IF loaded.raised THEN LoadFailed ELSE loaded)
    IN /\ phase = "init"
       /\ Caught(load_openapi(environ.OPENAPI_URL, doc))
       /\ phase' = "serving"
       /\ UNCHANGED <<environ, server_name, now, oauth_cache, ncalls, lookups, exchanges, token_issued, last>>
       /\ fetched' = doc
       /\ UNCHANGED <<cli_vars, conc_vars, rpc>>

Register == \E doc \in ServedDocuments : register_openapi_tools(doc)

\* time passes
Tick ==
    /\ phase = "serving"
    /\ now < MaxTime
    /\ now' = now + 1
    /\ UNCHANGED <<phase, environ, server_name, oauth_cache, openapi_spec, operations_info,
                   registered_tools, api_server_url, ncalls, lookups, exchanges, token_issued, last>>
    /\ UNCHANGED <<cli_vars, conc_vars, fetched, rpc>>

CountToken(net) == Cardinality({i \in DOMAIN net : net[i] = "token"})

\* variant with a slip: the bound path is kept as the path of the function
ClosureAfter_rebound(fn, bound_path) == [fn EXCEPT !.path = bound_path]

\* what a generated tool function holds after a call: _prepare_request gets
\* path, parameters and server_url as arguments and assigns the bound path
\* to its own name, so the function keeps what it was generated with
ClosureAfter(fn, bound_path) == fn

\* the registered tools after a call of the tool at key that built a request
ToolsAfter(tools, key, out) ==
    [i \in DOMAIN tools |->
        IF tools[i].key = key /\ tools[i].val.kind = "api" /\ out.stage \in {"dry_run", "live"}
        THEN [key |-> key, val |-> ClosureAfter(tools[i].val, out.bound_path)]
        ELSE tools[i]]

\* the state after a call that produced out
Finish(entry, name, req_id, kwargs, kwdict, resp, out) ==
    /\ out.eff.now <= MaxTime
    /\ oauth_cache' = out.eff.cache
    /\ now' = out.eff.now
    /\ phase' = IF out.eff.exit THEN "exited" ELSE phase
    /\ exchanges' = exchanges + CountToken(out.eff.net)
    /\ lookups' = IF out.eff.source = "none" THEN lookups ELSE lookups + 1
    /\ token_issued' = IF out.eff.source = "exchange" /\ resp.ok
                       THEN [at |-> out.eff.now, access_token |-> resp.access_token, any |-> TRUE,
                             expires_in |-> IF resp.has_expires_in THEN resp.expires_in ELSE DefaultExpires]
                       ELSE token_issued
    /\ ncalls' = ncalls + 1
    /\ last' = [entry |-> entry, name |-> name, req_id |-> req_id, kwargs |-> kwargs, kwdict |-> kwdict,
                resp |-> IF out.eff.source = "exchange" THEN resp ELSE NoResponse, out |-> out]
    /\ registered_tools' =
          IF name.t # "str" THEN registered_tools
          ELSE ToolsAfter(registered_tools,
                          IF HasKey(registered_tools, name.s) THEN name.s ELSE server_name \o <<"_">> \o name.s,
                          out)
    /\ UNCHANGED <<environ, server_name, openapi_spec, operations_info, api_server_url>>
    /\ UNCHANGED <<cli_vars, conc_vars, fetched, rpc>>

\* a generated tool function invoked through the MCP transport, with the
\* arguments, token endpoint answers and exchange durations drawn from the
\* given sets
ToolFuncOn(arguments, responses, delays, ups, max_calls) ==
    /\ phase = "serving"
    /\ ncalls < max_calls
    /\ \E i \in DOMAIN registered_tools, req_id \in ReqIds, a \in arguments :
         LET fn == registered_tools[i].val
             \* probe: the call with no answer, to see what it will ask for; a call
             \* that asks for nothing is the probe itself
             Run(probe) ==
                \E resp \in IF probe.eff.source = "exchange" THEN responses ELSE {NoResponse},
                   d \in IF probe.eff.source = "exchange" THEN delays ELSE {0},
                   up \in IF probe.stage = "live" THEN ups ELSE {"json"} :
                  Finish("tool_func", Str(registered_tools[i].key), req_id, a.kwargs, a.kwdict, resp,
                         IF probe.eff.source = "exchange" \/ probe.stage = "live"
                         THEN tool_func(fn, req_id, a.kwargs, a.kwdict, oauth_cache, now, environ, resp, d, up)
                         ELSE probe)
         IN /\ fn.kind = "api"
            /\ Run(tool_func(fn, req_id, a.kwargs, a.kwdict, oauth_cache, now, environ, NoResponse, 0, "json"))

ToolFunc == ToolFuncOn(Arguments, BasicResponses, {0}, Upstream, MaxCalls)

\* names a caller may pass to tools_call: none, registered names, operation
\* identifiers without the server prefix, a name that is not registered
N_nope == <<"n","o","p","e">>

CallNames ==
    {None, Str(N_nope)} \cup {Str(registered_tools[i].key) : i \in DOMAIN registered_tools}
    \cup {Str(operations_info[i].key) : i \in DOMAIN operations_info}

ToolsCallToolOn(names, arguments, responses, delays, ups, max_calls) ==
    /\ phase = "serving"
    /\ ncalls < max_calls
    /\ \E name \in names, req_id \in ReqIds, a \in arguments :
         LET Run(probe) ==
                \E resp \in IF probe.eff.source = "exchange" THEN responses ELSE {NoResponse},
                   d \in IF probe.eff.source = "exchange" THEN delays ELSE {0},
                   up \in IF probe.stage = "live" THEN ups ELSE {"json"} :
                  Finish("tools_call_tool", name, req_id, a.kwargs, a.kwdict, resp,
                         IF probe.eff.source = "exchange" \/ probe.stage = "live"
                         THEN tools_call_tool(registered_tools, server_name, req_id, name, a.kwargs, a.kwdict,
                                              oauth_cache, now, environ, resp, d, up)
                         ELSE probe)
         IN Run(tools_call_tool(registered_tools, server_name, req_id, name, a.kwargs, a.kwdict,
                                oauth_cache, now, environ, NoResponse, 0, "json"))

ToolsCallTool == ToolsCallToolOn(CallNames, ToolsCallArguments, BasicResponses, {0}, Upstream, MaxCalls)

Next == Register \/ Tick \/ ToolFunc \/ ToolsCallTool

Spec == Init /\ [][Next]_vars

\* ------------------------------------- specification of the credential cache
\* the same server with OAuth configured or partly configured, every answer
\* of the token endpoint, exchanges that take time, and few arguments
\* every variable set, and each way of leaving some of them out
AuthEnvirons == {Environ(U_spec, TRUE, TRUE, TRUE), Environ(U_spec, TRUE, FALSE, TRUE),
                 Environ(U_spec, FALSE, TRUE, TRUE), Environ(U_spec, TRUE, TRUE, FALSE),
                 Environ(U_spec, FALSE, FALSE, FALSE)}

InitAuth == InitWith(AuthEnvirons, ServerNames)

DocSingle ==
    Document(Servers("list", <<<<"h","t","t","p","s",":","/","/","h","o","s","t","/","a","p","i","/">>>>),
             <<Entry(<<"/","w","i","d","g","e","t","s","/","{","i","d","}">>, <<"g","e","t">>, Op(Str(<<"g","e","t","W","i","d","g","e","t">>), <<P_id, P_limit>>, NoBody))>>)

RegisterAuth == register_openapi_tools(DocSingle)

ToolFuncAuth == ToolFuncOn(AuthArguments, TokenResponses, ExchangeDelays, {"json"}, MaxAuthCalls)

ToolsCallToolAuth ==
    ToolsCallToolOn({Str(operations_info[i].key) : i \in DOMAIN operations_info}, {Args((<<"i","d">> :> Str(<<"7">>)), NoKwdict)},
                    TokenResponses, ExchangeDelays, {"json"}, MaxAuthCalls)

NextAuth == RegisterAuth \/ Tick \/ ToolFuncAuth \/ ToolsCallToolAuth

SpecAuth == InitAuth /\ [][NextAuth]_vars

\* ------------------------------ the paginating tool function (openapi-mcp.py)
N_all_pages == <<"a","l","l","_","p","a","g","e","s">>
N_response_format == <<"r","e","s","p","o","n","s","e","_","f","o","r","m","a","t">>
N_page == <<"p","a","g","e">>
V_true == <<"t","r","u","e">>

\* the operation the function was generated for
CliServerUrl == <<"h","t","t","p","s",":","/","/","h","o","s","t","/","a","p","i","/">>
CliPath == <<"/","s","h","o","p","s","/","{","i","d","}","/","w","i","d","g","e","t","s">>
CliParameters == <<Param(<<"i","d">>, "path", TRUE, "integer"), Param(<<"s","i","z","e">>, "query", FALSE, "integer")>>

\* answers of the target API
PageResponse(status, body, totalPages) == [status |-> status, body |-> body, totalPages |-> totalPages]

Paged(n) == PageResponse("ok", "paged", n)

\* paged_more is {"page": {"totalPages": n}} with n two more than the page
\* asked for: an API whose total grows with every page
PageResponses ==
    {Paged(n) : n \in 0..MaxTotalPages}
    \cup {PageResponse("ok", "paged_more", 0),
          PageResponse("ok", "paged_no_total", 0), PageResponse("ok", "page_not_object", 0),
          PageResponse("ok", "object", 0), PageResponse("ok", "text", 0),
          PageResponse("status_error", "text", 0), PageResponse("transport_error", "text", 0)}

CliArguments ==
  {
    EmptyMap,
    (<<"i","d">> :> Str(<<"7">>)),
    (<<"i","d">> :> Str(<<"7">>) @@ <<"a","l","l","_","p","a","g","e","s">> :> Str(<<"t","r","u","e">>)),
    (<<"i","d">> :> Str(<<"7">>) @@ <<"s","i","z","e">> :> Str(<<"5">>) @@ <<"a","l","l","_","p","a","g","e","s">> :> PyTrue),
    (<<"i","d">> :> Str(<<"7">>) @@ <<"a","l","l","_","p","a","g","e","s">> :> Str(<<"t","r","u","e">>) @@ <<"d","r","y","_","r","u","n">> :> Str(<<"t","r","u","e">>)),
    (<<"i","d">> :> Str(<<"7">>) @@ <<"d","r","y","_","r","u","n">> :> Str(<<"T","r","u","e">>) @@ <<"b","o","d","y">> :> Str(<<"p","a","y","l","o","a","d">>)),
    (<<"i","d">> :> Str(<<"7">>) @@ <<"z","z">> :> Str(<<"1">>) @@ <<"a","l","l","_","p","a","g","e","s">> :> Str(<<"t","r","u","e">>))
  }

\* str(kwargs.pop(name, "false")).lower() == "true"
FlagTrue(kwargs, name) == name \in DOMAIN kwargs /\ lower(str(kwargs[name])) = V_true

\* the names of the declared parameters at the given location, in order
NamesAt(parameters, loc) ==
    LET F[i \in 0..Len(parameters)] ==
            IF i = 0 THEN <<>>
            ELSE IF parameters[i].in = loc THEN Append(F[i-1], parameters[i].name) ELSE F[i-1]
    IN F[Len(parameters)]

\* the path loop: substitute every declared path parameter; failed when one is absent
RECURSIVE CliBindPath(_, _, _)
CliBindPath(names, kwargs, final_path) ==
    IF names = <<>> THEN [failed |-> FALSE, final_path |-> final_path]
    ELSE IF Head(names) \notin DOMAIN kwargs THEN [failed |-> TRUE, final_path |-> final_path]
    ELSE CliBindPath(Tail(names), kwargs,
                     replace(final_path, <<"{">> \o Head(names) \o <<"}">>, str(kwargs[Head(names)])))

CliReturn(ret) ==
    /\ cli_pc' = "done"
    /\ cli_ret' = ret
    /\ UNCHANGED <<current_page, results>>

\* tool_func up to and including do_request.  An invocation keeps nothing
\* for the next one, so a behaviour follows one invocation to its end.
CliCall ==
    /\ cli_pc = "idle"
    /\ \E kwargs \in CliArguments, resp \in PageResponses :
         LET missing == SelectNotIn(RequiredNames(CliParameters), kwargs)
             all_pages == FlagTrue(kwargs, N_all_pages)
             dry_run == FlagTrue(kwargs, N_dry_run)
             kwargs1 == pop(pop(pop(kwargs, N_all_pages), N_dry_run), N_response_format)
             path_names == NamesAt(CliParameters, "path")
             bound == CliBindPath(path_names, kwargs1, CliPath)
             kwargs2 == [k \in (DOMAIN kwargs1) \ Range(path_names) |-> kwargs1[k]]
             query_names == Range(NamesAt(CliParameters, "query")) \cap DOMAIN kwargs2
             query == [k \in query_names |-> kwargs2[k]]
             kwargs3 == [k \in (DOMAIN kwargs2) \ query_names |-> kwargs2[k]]
             body == IF N_body \in DOMAIN kwargs3 THEN kwargs3[N_body] ELSE None
             kwargs4 == pop(kwargs3, N_body)
             url_full == rstrip(CliServerUrl, "/") \o bound.final_path
             req == [url_full |-> url_full, query |-> query, body |-> body, dry_run |-> dry_run, sent |-> 0]
         IN /\ cli_kwargs' = kwargs
            /\ IF missing # <<>>
               THEN /\ CliReturn([NoCliRet EXCEPT !.kind = "help", !.names = missing])
                    /\ cli_req' = NoCliReq /\ cli_log' = <<>>
               ELSE IF bound.failed
               THEN /\ CliReturn([NoCliRet EXCEPT !.kind = "error", !.text = "Missing path parameter"])
                    /\ cli_req' = NoCliReq /\ cli_log' = <<>>
               ELSE IF DOMAIN kwargs4 # {}
               THEN /\ CliReturn([NoCliRet EXCEPT !.kind = "error", !.text = "Unknown parameter(s)"])
                    /\ cli_req' = NoCliReq /\ cli_log' = <<>>
               ELSE /\ cli_req' = req
                    /\ cli_log' = IF dry_run THEN <<>> ELSE <<[query |-> query, resp |-> resp]>>
                    /\ IF ~dry_run /\ resp.status # "ok"
                       THEN CliReturn([NoCliRet EXCEPT !.kind = "error", !.text = "str(e)"])
                       ELSE IF ~all_pages
                       THEN CliReturn([NoCliRet EXCEPT !.kind = IF dry_run THEN "dry_run" ELSE "result",
                                                       !.pages = IF dry_run THEN <<>> ELSE <<resp>>])
                       ELSE /\ cli_pc' = "paging"
                            /\ current_page' = 0
                            /\ results' = <<>>
                            /\ cli_ret' = NoCliRet
    /\ UNCHANGED <<srv_vars, conc_vars, fetched, rpc>>

\* variant with a slip: raise_for_status is left out
RequestFailed_transport(resp) == resp.status = "transport_error"

\* client.request raised, or raise_for_status did
RequestFailed(resp) == resp.status # "ok"

\* cli_log and results hold the first MaxKept entries; current_page is
\* counted up to MaxPage, a value that stands for every later page too
Kept(seq, x) == IF Len(seq) < MaxKept THEN Append(seq, x) ELSE seq

\* one iteration of the page loop
CliPage ==
    /\ cli_pc = "paging"
    /\ \E resp \in PageResponses :
         LET query == put(cli_req.query, N_page, PyInt(<<Digits[current_page + 1]>>))
         IN /\ cli_log' = Kept(cli_log, [query |-> query, resp |-> resp])
            /\ cli_req' = [cli_req EXCEPT !.query = query, !.sent = 1 - cli_req.sent]
            /\ IF RequestFailed(resp)
               THEN /\ cli_pc' = "done"
                    /\ cli_ret' = [NoCliRet EXCEPT !.kind = "error", !.text = "str(e)"]
                    /\ UNCHANGED <<current_page, results>>
               ELSE /\ results' = Kept(results, resp)
                    /\ IF resp.body = "page_not_object"
                       THEN /\ cli_pc' = "raised"
                            /\ UNCHANGED <<current_page, cli_ret>>
                       ELSE IF resp.body \in {"paged", "paged_more", "paged_no_total"}
                       THEN LET total_pages == CASE resp.body = "paged" -> resp.totalPages
                                                 [] resp.body = "paged_more" -> current_page + 2
                                                 [] OTHER -> 1
                            IN IF current_page >= total_pages - 1
                               THEN /\ cli_pc' = "done"
                                    /\ cli_ret' = [NoCliRet EXCEPT !.kind = "pages", !.pages = results']
                                    /\ UNCHANGED current_page
                               ELSE /\ current_page' = IF current_page < MaxPage THEN current_page + 1
                                                       ELSE current_page
                                    /\ UNCHANGED <<cli_pc, cli_ret>>
                       ELSE /\ cli_pc' = "done"
                            /\ cli_ret' = [NoCliRet EXCEPT !.kind = "pages", !.pages = results']
                            /\ UNCHANGED current_page
    /\ UNCHANGED cli_kwargs
    /\ UNCHANGED <<srv_vars, conc_vars, fetched, rpc>>

InitCli == InitWith({Environ(U_spec, FALSE, FALSE, FALSE)}, ServerNames)

NextCli == CliCall \/ CliPage

SpecCli == InitCli /\ [][NextCli]_vars

\* the page loop is a running loop: it takes its next iteration
SpecCliLive == SpecCli /\ WF_vars(CliPage)

\* --------------------------------------------- specification of the loading
\* the server started on varied spec URLs, server names and documents
U_spec_v3 == <<"h","t","t","p","s",":","/","/","h","o","s","t","/","a","p","i","/","v","3","/","o","p","e","n","a","p","i",".","j","s","o","n">>
U_spec_root == <<"h","t","t","p",":","/","/","h","o","s","t","/","o","p","e","n","a","p","i",".","j","s","o","n">>
U_spec_bare == <<"h","t","t","p","s",":","/","/","h","o","s","t">>

SpecUrls == {U_spec, U_spec_v3, U_spec_root, U_spec_bare}

LoadEnvirons == {Environ(u, FALSE, FALSE, FALSE) : u \in SpecUrls}

\* a usual name, no name, a name with other characters, a name longer than the limit
LoadServerNames == {<<"s","r","v">>, <<>>, <<"m","y"," ","s","e","r","v","e","r","!">>,
                    <<"o","p","e","n","a","p","i","_","p","r","o","x","y","_","s","e","r","v","e","r","_","f","o","r","_","t","h","e","_","w","i","d","g","e","t","s","_","a","n","d","_","i","t","e","m","s","_","o","f","_","t","h","e","_","w","a","r","e","h","o","u","s","e","_","a","p","i","_","v","3">>}

LoadServers ==
    {Servers("absent", <<>>), Servers("other", <<>>), Servers("list", <<>>), Servers("list", <<<<>>>>),
     Servers("list", <<<<"/","v","2">>>>), Servers("dict", <<<<"/","v","2">>>>),
     Servers("list", <<<<"h","t","t","p","s",":","/","/","a","p","i",".","h","o","s","t","/","v","1","/">>>>), Servers("list", <<<<"h","t","t","p",":","/","/","p","l","a","i","n",".","h","o","s","t">>>>),
     Servers("list", <<<<"H","T","T","P",":","/","/","U","P",".","H","O","S","T","/","v","1">>>>), Servers("dict", <<<<"/","/","c","d","n",".","h","o","s","t","/","v","1">>>>), Servers("list", <<<<"w","s",":","/","/","s","o","c","k",".","h","o","s","t">>>>),
     Servers("list", <<<<"a","p","i",".","h","o","s","t","/","v","1">>>>), Servers("list", <<<<"/","v","2">>, <<"h","t","t","p","s",":","/","/","a","p","i",".","h","o","s","t","/","v","1","/">>>>)}

\* operation ids that are long, absent, empty or hold other characters, a
\* method in upper case, and a path item key that is no method
PathsOdd ==
    <<Entry(<<"/","w","i","d","g","e","t","s","/","{","i","d","}">>, <<"g","e","t">>, Op(Str(<<"g","e","t","W","i","d","g","e","t","B","y","I","d","e","n","t","i","f","i","e","r","I","n","c","l","u","d","i","n","g","I","t","s","S","t","o","c","k","L","e","v","e","l","s","A","n","d","A","l","l","O","f","I","t","s","O","p","e","n","P","u","r","c","h","a","s","e","O","r","d","e","r","s">>), <<P_id>>, NoBody)),
      Entry(<<"/","w","i","d","g","e","t","s","/","{","i","d","}">>, <<"D","E","L","E","T","E">>, Op(None, <<P_id>>, NoBody)),
      Entry(<<"/","i","t","e","m","s">>, <<"p","a","r","a","m","e","t","e","r","s">>, Op(None, <<>>, NoBody)),
      Entry(<<"/","a"," ","b","/","c",".","d","~","e">>, <<"p","o","s","t">>, Op(Str(<<>>), <<>>, NoBody)),
      Entry(<<"/","i","t","e","m","s">>, <<"g","e","t">>, Op(Str(<<"l","i","s","t"," ","i","t","e","m","s","+","2">>), <<P_limit>>, NoBody))>>

\* operations whose identifiers collide after sanitizing: by operationId
\* (list items, list.items) and by the method_path fallback (/a/b, /a_b, /{a}/b)
PathsColliding ==
    <<Entry(<<"/","i","t","e","m","s">>, <<"g","e","t">>, Op(Str(<<"l","i","s","t"," ","i","t","e","m","s">>), <<P_limit>>, NoBody)),
      Entry(<<"/","i","t","e","m","s">>, <<"p","o","s","t">>, Op(Str(<<"l","i","s","t","-","i","t","e","m","s">>), <<>>, [given |-> TRUE, required |-> TRUE, type |-> "object"])),
      Entry(<<"/","t","h","i","n","g","s">>, <<"g","e","t">>, Op(Str(<<"l","i","s","t",".","i","t","e","m","s">>), <<>>, NoBody)),
      Entry(<<"/","a","/","b">>, <<"g","e","t">>, Op(None, <<>>, NoBody)),
      Entry(<<"/","a","_","b">>, <<"g","e","t">>, Op(None, <<P_id>>, NoBody)),
      Entry(<<"/","{","a","}","/","b">>, <<"g","e","t">>, Op(None, <<P_limit>>, NoBody))>>

LoadDocuments ==
    {Document(servers, paths) : servers \in LoadServers, paths \in {PathsOdd, DocWidgets.paths}}
    \cup {DocUnreachable, [DocWidgets EXCEPT !.has_info = FALSE], [DocWidgets EXCEPT !.title = "blank"],
          [DocWidgets EXCEPT !.has_paths = FALSE], [DocWidgets EXCEPT !.has_paths = FALSE, !.has_info = FALSE],
          [DocWidgets EXCEPT !.is_dict = FALSE, !.has_paths = FALSE, !.has_info = FALSE],
          Document(Servers("absent", <<>>), PathsColliding),
          Document(Servers("absent", <<>>),
                   <<Entry(<<"/","t","o","o","l","s">>, <<"g","e","t">>, Op(Str(N_tools_list), <<P_limit>>, NoBody))>>)}

InitLoad == InitWith(LoadEnvirons, LoadServerNames)

RegisterLoad == \E doc \in LoadDocuments : register_openapi_tools(doc)

NextLoad == RegisterLoad

SpecLoad == InitLoad /\ [][NextLoad]_vars


\* --------------------------------- specification of concurrent credential lookups
\* Several threads share one MCPServer and call get_oauth_access_token; the
\* code holds no lock, so the threads interleave between its statements.
\* Steps of one call: the cache is read, the exchange is sent, its answer
\* arrives, set_token assigns token, set_token assigns expiry.
ConcEnvirons == {Environ(U_spec, TRUE, TRUE, TRUE), Environ(U_spec, TRUE, FALSE, TRUE)}

InitConc == InitWith(ConcEnvirons, ServerNames)

ConcUnchanged ==
    UNCHANGED <<environ, server_name, openapi_spec, operations_info, registered_tools,
                api_server_url, ncalls, token_issued, last, cli_vars, fetched, rpc>>

\* token = self.oauth_cache.get_token(); return it, or go on to the exchange
ConcCheck(c) ==
    /\ phase = "serving"
    /\ callers[c].pc = "idle"
    /\ lookups < MaxConcLookups
    /\ lookups' = lookups + 1
    /\ callers' = [callers EXCEPT ![c] =
                      IF Truthy(get_token(oauth_cache, now))
                      THEN [IdleCaller EXCEPT !.ret = get_token(oauth_cache, now)]
                      ELSE IF OAuthConfigured(environ)
                      THEN [pc |-> "post", resp |-> NoResponse, ret |-> None]
                      ELSE IdleCaller]
    /\ UNCHANGED <<phase, now, oauth_cache, exchanges>>
    /\ ConcUnchanged

\* httpx.post(token_url, ...) is sent
ConcPost(c) ==
    /\ phase = "serving"
    /\ callers[c].pc = "post"
    /\ exchanges' = exchanges + 1
    /\ callers' = [callers EXCEPT ![c].pc = "wait"]
    /\ UNCHANGED <<phase, now, oauth_cache, lookups>>
    /\ ConcUnchanged

\* the answer arrives; a failure ends in sys.exit(1), which ends the thread
\* that raised it, and the process when that thread is the main one
ConcAnswer(c) ==
    /\ phase = "serving"
    /\ callers[c].pc = "wait"
    /\ \E resp \in TokenResponses :
         IF resp.ok
         THEN /\ callers' = [callers EXCEPT ![c] = [pc |-> "set_token", resp |-> resp, ret |-> None]]
              /\ phase' = phase
         ELSE /\ callers' = [callers EXCEPT ![c] = [pc |-> "exited", resp |-> resp, ret |-> None]]
              /\ phase' \in {"serving", "exited"}
    /\ UNCHANGED <<now, oauth_cache, lookups, exchanges>>
    /\ ConcUnchanged

\* OAuthCache.set_token: self.token = token
ConcSetToken(c) ==
    /\ phase = "serving"
    /\ callers[c].pc = "set_token"
    /\ oauth_cache' = [oauth_cache EXCEPT !.token = callers[c].resp.access_token]
    /\ callers' = [callers EXCEPT ![c].pc = "set_expiry"]
    /\ UNCHANGED <<phase, now, lookups, exchanges>>
    /\ ConcUnchanged

\* OAuthCache.set_token: self.expiry = time.time() + expires_in; return access_token
ConcSetExpiry(c) ==
    /\ phase = "serving"
    /\ callers[c].pc = "set_expiry"
    /\ oauth_cache' = [oauth_cache EXCEPT !.expiry =
                          now + (IF callers[c].resp.has_expires_in THEN callers[c].resp.expires_in
                                 ELSE DefaultExpires)]
    /\ callers' = [callers EXCEPT ![c] = [IdleCaller EXCEPT !.ret = callers[c].resp.access_token]]
    /\ UNCHANGED <<phase, now, lookups, exchanges>>
    /\ ConcUnchanged

ConcStep == \E c \in Callers : ConcCheck(c) \/ ConcPost(c) \/ ConcAnswer(c) \/ ConcSetToken(c) \/ ConcSetExpiry(c)

NextConc == RegisterAuth \/ Tick \/ ConcStep

SpecConc == InitConc /\ [][NextConc]_vars

\* ----------------------------------- the JSON-RPC command line: tool_func
\* a local name of a function before anything was assigned to it
Unbound == [t |-> "unbound", s |-> <<>>]

RpcRaised(exc) == [kind |-> "raised", member |-> "none", payload |-> "none", exc |-> exc, sent |-> FALSE]

RpcEnvelope(member, payload, sent) ==
    [kind |-> "envelope", member |-> member, payload |-> payload, exc |-> "none", sent |-> sent]

\* the binding loop of the tool function.  acc is [path, request_params,
\* request_headers, request_body, exc]; path is the local name of tool_func
\* that the loop assigns, Unbound until then
RECURSIVE RpcBind(_, _, _)
RpcBind(parameters, kwargs, acc) ==
    IF parameters = <<>> THEN acc
    ELSE LET param == Head(parameters)
             name == param.name
         IN IF name \notin DOMAIN kwargs THEN RpcBind(Tail(parameters), kwargs, acc)
            ELSE LET c == Convert(param.type, kwargs[name])
                     value == c.v
                 IN IF ~c.ok THEN [acc EXCEPT !.exc = "ValueError"]
                    ELSE CASE param.in = "path" ->
                                 IF acc.path = Unbound THEN [acc EXCEPT !.exc = "UnboundLocalError"]
                                 ELSE RpcBind(Tail(parameters), kwargs,
                                        [acc EXCEPT !.path = Str(replace(acc.path.s, <<"{">> \o name \o <<"}">>, str(value)))])
                           [] param.in = "query" ->
                                 RpcBind(Tail(parameters), kwargs, [acc EXCEPT !.request_params = put(acc.request_params, name, value)])
                           [] param.in = "header" ->
                                 RpcBind(Tail(parameters), kwargs, [acc EXCEPT !.request_headers = put(acc.request_headers, name, value)])
                           [] param.in = "body" ->
                                 RpcBind(Tail(parameters), kwargs, [acc EXCEPT !.request_body = value])
                           [] OTHER -> RpcBind(Tail(parameters), kwargs, acc)

\* the name path inside tool_func: the function assigns to it, so it is a
\* local name of tool_func and starts without a value, whatever the path of
\* the enclosing function is
RpcLocalPath(path) == Unbound

\* the tool function generated for one operation.  oauth is what the
\* environment and the token endpoint make of get_oauth_access_token: "none"
\* (variables not set), "ok" (a token), "fail" (the exchange failed, sys.exit);
\* resp is the answer of the API.
rpc_tool_func(op, kwargs0, oauth, resp) ==
    IF SelectNotIn(RequiredNames(op.parameters), kwargs0) # <<>> THEN RpcEnvelope("result", "help", FALSE)
    ELSE LET dry_run == IF N_dry_run \in DOMAIN kwargs0 THEN kwargs0[N_dry_run] ELSE PyFalse
             kwargs == pop(kwargs0, N_dry_run)
             bound == RpcBind(op.parameters, kwargs,
                              [path |-> RpcLocalPath(op.path), request_params |-> EmptyMap,
                               request_headers |-> EmptyMap, request_body |-> None, exc |-> "none"])
         IN IF bound.exc # "none" THEN RpcRaised(bound.exc)
            ELSE IF oauth = "fail" THEN RpcRaised("SystemExit")
            ELSE IF bound.path = Unbound THEN RpcRaised("UnboundLocalError")
            ELSE IF Truthy(dry_run) THEN RpcEnvelope("result", "dry_run", FALSE)
            ELSE CASE resp = "ok_json" -> RpcEnvelope("result", "response", TRUE)
                   [] resp = "ok_text" -> RpcEnvelope("result", "raw_response", TRUE)
                   [] OTHER -> RpcEnvelope("error", "message", TRUE)

\* the operations a tool function is generated for: a required integer path
\* parameter, an optional integer query parameter, a required header
\* parameter, and none at all
RpcOperations ==
    {[operation_id |-> <<"g","e","t","W","i","d","g","e","t">>, method |-> <<"g","e","t">>, path |-> <<"/","w","i","d","g","e","t","s","/","{","i","d","}">>, parameters |-> <<P_id, P_limit>>],
     [operation_id |-> <<"l","i","s","t","I","t","e","m","s">>, method |-> <<"g","e","t">>, path |-> <<"/","i","t","e","m","s">>, parameters |-> <<P_limit>>],
     [operation_id |-> <<"p","u","t","I","t","e","m">>, method |-> <<"p","u","t">>, path |-> <<"/","i","t","e","m","s">>,
      parameters |-> <<Param(<<"X","-","T","r","a","c","e">>, "header", TRUE, "string"), Param(N_body, "body", FALSE, "string")>>],
     [operation_id |-> <<"p","i","n","g">>, method |-> <<"g","e","t">>, path |-> <<"/","p","i","n","g">>, parameters |-> <<>>]}

RpcKwargs ==
    {EmptyMap,
     (N_dry_run :> PyFalse),
     (N_dry_run :> PyTrue),
     (<<"i","d">> :> Str(<<"7">>) @@ N_dry_run :> PyFalse),
     (<<"i","d">> :> Str(<<"7">>) @@ N_dry_run :> PyTrue),
     (<<"i","d">> :> Str(<<"a","b","c">>) @@ N_dry_run :> PyFalse),
     (<<"l","i","m","i","t">> :> Str(<<"5">>) @@ N_dry_run :> PyFalse),
     (<<"l","i","m","i","t">> :> Str(<<"a","b","c">>) @@ N_dry_run :> PyFalse),
     (<<"i","d">> :> Str(<<"7">>) @@ <<"l","i","m","i","t">> :> Str(<<"a","b","c">>) @@ N_dry_run :> PyTrue),
     (<<"X","-","T","r","a","c","e">> :> Str(<<"t","1">>) @@ N_dry_run :> PyFalse),
     (<<"X","-","T","r","a","c","e">> :> Str(<<"t","1">>) @@ N_body :> Str(<<"p","a","y","l","o","a","d">>) @@ N_dry_run :> PyTrue),
     (<<"z","z">> :> Str(<<"1">>) @@ N_dry_run :> PyFalse)}

RpcOAuth == {"none", "ok", "fail"}

RpcResponses == {"ok_json", "ok_text", "status_error", "transport_error"}

\* one run of the command line calls one endpoint
RpcCall ==
    /\ ~rpc.called
    /\ \E op \in RpcOperations, kwargs \in RpcKwargs, oauth \in RpcOAuth, resp \in RpcResponses :
          rpc' = [called |-> TRUE, operation_id |-> op.operation_id, kwargs |-> kwargs, oauth |-> oauth,
                  out |-> rpc_tool_func(op, kwargs, oauth, resp)]
    /\ UNCHANGED <<srv_vars, cli_vars, conc_vars, fetched>>

InitRpc == InitWith({Environ(U_spec, FALSE, FALSE, FALSE)}, ServerNames)

NextRpc == RpcCall

SpecRpc == InitRpc /\ [][NextRpc]_vars

\* --------------------------------------------- specification of the binding
\* one operation with a parameter in every place and two body parameters
\* (a parameter in the body and the request body), one with a query
\* parameter only; called with declared and undeclared arguments
DocBodies ==
    Document(Servers("absent", <<>>),
             <<Entry(<<"/","w","i","d","g","e","t","s","/","{","i","d","}">>, <<"p","u","t">>,
                     Op(Str(<<"p","u","t","W","i","d","g","e","t">>),
                        <<P_id, P_limit, P_user_agent, Param(<<"p","a","y","l","o","a","d">>, "body", FALSE, "string")>>,
                        [given |-> TRUE, required |-> FALSE, type |-> "string"])),
               Entry(<<"/","i","t","e","m","s">>, <<"g","e","t">>, Op(Str(<<"l","i","s","t","I","t","e","m","s">>), <<P_limit>>, NoBody))>>)

BindArguments ==
  {
    Args((<<"i","d">> :> Str(<<"7">>) @@ <<"p","a","y","l","o","a","d">> :> Str(<<"a">>) @@ N_body :> Str(<<"b">>)
          @@ <<"z","z">> :> Str(<<"1">>) @@ N_dry_run :> PyTrue), NoKwdict),
    Args((<<"i","d">> :> Str(<<"7">>) @@ <<"p","a","y","l","o","a","d">> :> Str(<<"a">>) @@ N_dry_run :> PyTrue), NoKwdict),
    Args((<<"i","d">> :> Str(<<"7">>) @@ <<"p","a","y","l","o","a","d">> :> Str(<<"a">>) @@ N_body :> Str(<<"b">>)), NoKwdict),
    Args((<<"i","d">> :> Str(<<"7">>) @@ <<"l","i","m","i","t">> :> Str(<<"5">>) @@ N_User_Agent :> Str(<<"u","a">>)
          @@ N_Authorization :> Str(<<"x">>) @@ <<"z","z">> :> Str(<<"1">>) @@ N_dry_run :> PyTrue), NoKwdict),
    Args((<<"i","d">> :> Str(<<"7">>) @@ <<"l","i","m","i","t">> :> Str(<<"5">>) @@ <<"z","z">> :> Str(<<"1">>)), NoKwdict)
  }

RegisterBind == register_openapi_tools(DocBodies)

ToolFuncBind == ToolFuncOn(Arguments \cup BindArguments, BasicResponses, {0}, Upstream, MaxCalls)

NextBind == RegisterBind \/ ToolFuncBind

SpecBind == Init /\ [][NextBind]_vars


\* -------------------------------------------------------------- properties
\* C1: with OAuth configured and the token endpoint answering with a
\* non-empty access_token and expires_in = L > 0, a call of
\* get_oauth_access_token made before exchange time + L triggers no token
\* exchange, and a call made at or after it (or before any exchange)
\* triggers exactly one.
GoodToken(issued) == issued.any /\ Truthy(issued.access_token) /\ issued.expires_in > 0

C1_OneExchangePerLifetime ==
    [][(lookups' = lookups + 1 /\ OAuthConfigured(environ)) =>
         /\ GoodToken(token_issued) /\ now < token_issued.at + token_issued.expires_in
               => exchanges' = exchanges
         /\ GoodToken(token_issued) /\ now >= token_issued.at + token_issued.expires_in
               => exchanges' = exchanges + 1
         /\ ~token_issued.any => exchanges' = exchanges + 1]_vars

\* three lookups, the second served from the cache, the third a new exchange
C1_Witness ==
    /\ lookups = 3
    /\ exchanges = 2
    /\ last.out.eff.source = "exchange"
    /\ last.out.returned
    /\ GoodToken(token_issued)
    /\ token_issued.at = now

\* C2: get_token returns the cached token only at times before its expiry;
\* a lookup at or after the expiry performs a new exchange when OAuth is
\* configured, and an Authorization header is built either from a cached
\* token that has not expired or from the token just exchanged.
Bearer(token) == Str(BearerPrefix \o token.s)

C2_NeverExpiredToken ==
    /\ [](\A t \in 0..(MaxTime + MaxLifetime + 1) :
             Truthy(get_token(oauth_cache, t)) => t < oauth_cache.expiry /\ get_token(oauth_cache, t) = oauth_cache.token)
    /\ [][lookups' = lookups + 1 =>
            /\ last'.out.eff.source = "cache" =>
                  /\ now < oauth_cache.expiry
                  /\ last'.out.prep.req_headers[N_Authorization] = Bearer(oauth_cache.token)
            /\ now >= oauth_cache.expiry /\ OAuthConfigured(environ) =>
                  /\ last'.out.eff.source = "exchange"
                  /\ exchanges' = exchanges + 1
            /\ N_Authorization \in DOMAIN last'.out.prep.req_headers =>
                  \/ last'.out.eff.source = "cache" /\ now < oauth_cache.expiry
                  \/ /\ last'.out.eff.source = "exchange"
                     /\ last'.out.prep.req_headers[N_Authorization] = Bearer(last'.resp.access_token)]_vars

\* a cached token expired, and the next lookup exchanged a new one
C2_Witness ==
    /\ exchanges >= 2
    /\ now >= 1
    /\ last.out.eff.source = "exchange"
    /\ N_Authorization \in DOMAIN last.out.prep.req_headers

\* C3: with all_pages=true and a target API that answers every request with
\* {"page":{"totalPages":3}}, a completed invocation has sent exactly 3 HTTP
\* requests and returns the 3 page payloads in request order.
AllPagesOfThree ==
    /\ cli_pc = "done"
    /\ FlagTrue(cli_kwargs, N_all_pages)
    /\ ~FlagTrue(cli_kwargs, N_dry_run)
    /\ cli_ret.kind = "pages"
    /\ \A i \in DOMAIN cli_log : cli_log[i].resp = Paged(3)

C3_ThreeRequestsThreePages ==
    AllPagesOfThree =>
        /\ Len(cli_log) = 3
        /\ cli_ret.pages = <<Paged(3), Paged(3), Paged(3)>>

\* ----------------------------------------------- what a recorded call was given
\* the generated tool function a call reached, directly or through tools_call
Reached(call) ==
    IF HasKey(registered_tools, call.name.s) THEN Lookup(registered_tools, call.name.s)
    ELSE Lookup(registered_tools, server_name \o <<"_">> \o call.name.s)

ReachesApi(call) ==
    /\ call.entry # "none"
    /\ call.name.t = "str"
    /\ HasKey(registered_tools, call.name.s) \/ HasKey(registered_tools, server_name \o <<"_">> \o call.name.s)
    /\ Reached(call).kind = "api"

\* the request block of a dry-run answer
RequestOf(call) == call.out.ret.result.request

\* C4: a dry run of a generated tool function sends nothing, neither to the
\* target API nor to the token endpoint, and a dry run that repeats the
\* previous dry run (same function, same arguments) returns the same request
\* block, whatever the OAuth configuration and the state of the cache.
C4_DryRunIdempotentNoNetwork ==
    [][(ncalls' = ncalls + 1 /\ last'.out.stage = "dry_run") =>
          /\ last'.out.eff.net = <<>>
          /\ (/\ last.out.stage = "dry_run"
              /\ last.entry = last'.entry
              /\ last.name = last'.name
              /\ last.kwargs = last'.kwargs
              /\ last.kwdict = last'.kwdict)
                => RequestOf(last') = RequestOf(last)]_vars

\* the arguments of a call after an entry kwargs has been merged in: a dict
\* as it is, a string as parse_kwargs_string reads it
HasKwargsString(call) ==
    ~call.kwdict.given /\ N_kwargs \in DOMAIN call.kwargs /\ call.kwargs[N_kwargs].t = "str"

KwargsStringPairs(call) == parse_kwargs_string(StripBackticks(call.kwargs[N_kwargs].s))

Unparsable(call) == HasKwargsString(call) /\ DOMAIN KwargsStringPairs(call) = {}

Supplied(call) ==
    IF call.kwdict.given THEN update(call.kwargs, call.kwdict.map)
    ELSE IF HasKwargsString(call) THEN update(pop(call.kwargs, N_kwargs), KwargsStringPairs(call))
    ELSE call.kwargs

Declared(call) == Reached(call).parameters

MissingRequired(call) ==
    {Declared(call)[i].name : i \in {j \in DOMAIN Declared(call) :
                                        /\ Declared(call)[j].required
                                        /\ Declared(call)[j].name \notin DOMAIN Supplied(call)}}

IsHelp(call) ==
    /\ call.out.returned
    /\ "result" \in DOMAIN call.out.ret
    /\ "error" \notin DOMAIN call.out.ret
    /\ "help" \in DOMAIN call.out.ret.result
    /\ Range(call.out.ret.result.help.names) = MissingRequired(call)
    /\ call.out.eff.net = <<>>

IsError(call, code) ==
    /\ call.out.returned
    /\ "error" \in DOMAIN call.out.ret
    /\ "result" \notin DOMAIN call.out.ret
    /\ call.out.ret.error.code = code

\* C5 as stated: every call that leaves a required parameter out is answered
\* with the help result and sends nothing.
C5_MissingRequiredAlwaysHelp ==
    (ReachesApi(last) /\ MissingRequired(last) # {}) => IsHelp(last)

\* C5: a call that leaves a required parameter out, after an entry kwargs
\* has been merged in, is answered with a result holding help that names the
\* missing parameters, with no error key, and sends nothing; unless its
\* kwargs string yields no pair, when it is answered with the error -32602
\* and sends nothing either.
C5_MissingRequiredHelpUnlessUnparsable ==
    (ReachesApi(last) /\ MissingRequired(last) # {}) =>
        IF Unparsable(last) THEN IsError(last, -32602) /\ last.out.eff.net = <<>>
        ELSE IsHelp(last)

\* a kwargs string was parsed and merged, and the required id is still missing
C5_Witness ==
    /\ ReachesApi(last)
    /\ HasKwargsString(last)
    /\ ~Unparsable(last)
    /\ MissingRequired(last) = {<<"i","d">>}
    /\ last.out.stage = "required"
    /\ last.out.ret.result.help.names = <<<<"i","d">>>>

\* the text of a Python integer literal: an optional sign and digits
IsIntegerText(s) ==
    /\ s # <<>>
    /\ \A i \in DOMAIN s : s[i] \in Range(Digits) \/ (i = 1 /\ s[i] = "-" /\ Len(s) > 1)

\* the call got as far as the binding loop
ReachesBinding(call) == ReachesApi(call) /\ ~Unparsable(call) /\ MissingRequired(call) = {}

\* the declared integer parameters the call supplies a value for
SuppliedIntegers(call) ==
    {i \in DOMAIN Declared(call) :
        Declared(call)[i].type = "integer" /\ Declared(call)[i].name \in DOMAIN Supplied(call)}

\* the value the caller supplied for the i-th declared parameter
SuppliedFor(call, i) == Supplied(call)[Declared(call)[i].name]

N_limit == <<"l","i","m","i","t">>

\* C6: a call that reaches the binding loop binds every supplied value of a
\* declared integer parameter as an integer (the text "5" as the integer 5);
\* when a supplied value is a text that is no integer (such as "abc") the
\* call returns the error -32602, does not raise, and sends nothing to the
\* target API.
C6_IntegerCoercion ==
    ReachesBinding(last) =>
        /\ (\E i \in SuppliedIntegers(last) : SuppliedFor(last, i) = Str(<<"a","b","c">>))
              => /\ IsError(last, -32602)
                 /\ last.out.stage = "conversion"
                 /\ last.out.eff.net = <<>>
        /\ last.out.stage \in {"dry_run", "live"} =>
              \A i \in SuppliedIntegers(last) :
                 LET param == Declared(last)[i]
                 IN /\ SuppliedFor(last, i).t \in {"str", "int"}
                    /\ IsIntegerText(StripSpaces(SuppliedFor(last, i).s)) \/ Head(StripSpaces(SuppliedFor(last, i).s)) = "+"
                    /\ param.in = "query" =>
                          /\ last.out.prep.req_params[param.name].t = "int"
                          /\ IsIntegerText(last.out.prep.req_params[param.name].s)
                          /\ SuppliedFor(last, i) = Str(<<"5">>)
                                => last.out.prep.req_params[param.name] = PyInt(<<"5">>)
                          /\ SuppliedFor(last, i) = Str(<<" ","0","5"," ">>)
                                => last.out.prep.req_params[param.name] = PyInt(<<"5">>)

\* id="7" was bound into the path, then limit="abc" ended the call with the
\* error, before anything was sent
C6_Witness ==
    /\ ReachesBinding(last)
    /\ Supplied(last) = (<<"i","d">> :> Str(<<"7">>) @@ N_limit :> Str(<<"a","b","c">>))
    /\ last.out.bound_path = <<"/","w","i","d","g","e","t","s","/","7">>
    /\ IsError(last, -32602)
    /\ last.out.ret.error.message = Message("Parameter conversion error", N_limit)
    /\ last.out.eff.net = <<>>

\* how many slashes a text ends with, and how many it starts with
TrailingSlashes(s) ==
    CHOOSE k \in 0..Len(s) :
        /\ \A i \in (Len(s) - k + 1)..Len(s) : s[i] = "/"
        /\ k = Len(s) \/ s[Len(s) - k] # "/"

LeadingSlashes(s) ==
    CHOOSE k \in 0..Len(s) :
        /\ \A i \in 1..k : s[i] = "/"
        /\ k = Len(s) \/ s[k + 1] # "/"

\* the call prepared a request
Prepared(call) == ReachesApi(call) /\ call.out.stage \in {"dry_run", "live"}

U_widget7 == <<"h","t","t","p","s",":","/","/","h","o","s","t","/","a","p","i","/","w","i","d","g","e","t","s","/","7">>

\* C7: the URL of every prepared request is the server URL without its
\* trailing slashes, one slash, and the bound path without its leading
\* slashes; the server URL https://host/api/ with the path /widgets/{id} and
\* id=7 gives https://host/api/widgets/7.
C7_UrlJoinOneSlash ==
    Prepared(last) =>
        LET server == Reached(last).server_url
            path == last.out.bound_path
            url == last.out.prep.full_url
            n == Len(server) - TrailingSlashes(server)
            m == Len(path) - LeadingSlashes(path)
        IN /\ Len(url) = n + 1 + m
           /\ SubSeq(url, 1, n) = SubSeq(server, 1, n)
           /\ url[n + 1] = "/"
           /\ SubSeq(url, n + 2, Len(url)) = SubSeq(path, Len(path) - m + 1, Len(path))
           /\ n > 0 => url[n] # "/"
           /\ m > 0 => url[n + 2] # "/"
           /\ (/\ server = <<"h","t","t","p","s",":","/","/","h","o","s","t","/","a","p","i","/">>
               /\ Reached(last).path = <<"/","w","i","d","g","e","t","s","/","{","i","d","}">>
               /\ <<"i","d">> \in DOMAIN Supplied(last)
               /\ Supplied(last)[<<"i","d">>] = Str(<<"7">>))
                 => url = U_widget7

\* the example of C7, as a dry run shows it
C7_Witness ==
    /\ Prepared(last)
    /\ last.out.stage = "dry_run"
    /\ Reached(last).server_url = <<"h","t","t","p","s",":","/","/","h","o","s","t","/","a","p","i","/">>
    /\ Reached(last).path = <<"/","w","i","d","g","e","t","s","/","{","i","d","}">>
    /\ RequestOf(last).url = U_widget7

\* a text matching ^[A-Za-z0-9_-]{1,64}$
PatternChars ==
    {"a","b","c","d","e","f","g","h","i","j","k","l","m","n","o","p","q","r","s","t","u","v","w","x","y","z",
     "A","B","C","D","E","F","G","H","I","J","K","L","M","N","O","P","Q","R","S","T","U","V","W","X","Y","Z",
     "0","1","2","3","4","5","6","7","8","9","_","-"}

MatchesPattern(name) ==
    /\ Len(name) >= 1
    /\ Len(name) <= 64
    /\ \A i \in DOMAIN name : name[i] \in PatternChars

\* C8: every key of the operation table and every registered tool name
\* matches ^[A-Za-z0-9_-]{1,64}$, whatever the operationId, the path, the
\* method and the server name.
C8_NamesMatchPattern ==
    /\ \A i \in DOMAIN operations_info : MatchesPattern(operations_info[i].key)
    /\ \A i \in DOMAIN registered_tools : MatchesPattern(registered_tools[i].key)

\* an operationId longer than 64 characters and one with other characters
\* were loaded, and tools were registered under a server name with other
\* characters
C8_Witness ==
    /\ phase = "serving"
    /\ openapi_spec.paths = PathsOdd
    /\ server_name = <<"m","y"," ","s","e","r","v","e","r","!">>
    /\ \E i \in DOMAIN operations_info : Len(operations_info[i].key) = 64
    /\ HasKey(operations_info, <<"l","i","s","t","_","i","t","e","m","s","_","2">>)
    /\ HasKey(operations_info, <<"p","o","s","t","_","_","a","_","b","_","c","_","d","_","e">>)
    /\ HasKey(registered_tools, <<"m","y","_","s","e","r","v","e","r","_","_","l","i","s","t","_","i","t","e","m","s","_","2">>)

\* the place of the third slash of a URL, 0 when it has fewer
SlashPositions(url) == {i \in DOMAIN url : url[i] = "/"}

ThirdSlash(url) ==
    IF Cardinality(SlashPositions(url)) >= 3
    THEN CHOOSE i \in SlashPositions(url) : Cardinality({j \in SlashPositions(url) : j < i}) = 2
    ELSE 0

\* scheme and host of a URL; the URL up to its last path segment
SchemeHost(url) == IF ThirdSlash(url) = 0 THEN url ELSE SubSeq(url, 1, ThirdSlash(url) - 1)

Directory(url) ==
    IF ThirdSlash(url) = 0 THEN url
    ELSE SubSeq(url, 1, (CHOOSE i \in SlashPositions(url) : \A j \in SlashPositions(url) : j <= i) - 1)

FirstServersUrl(servers) ==
    IF servers.kind \in {"list", "dict"} /\ Len(servers.urls) >= 1 THEN servers.urls[1] ELSE <<>>

ExpectedServerUrl(url, servers) ==
    LET first == FirstServersUrl(servers)
    IN IF first = <<>> THEN Directory(url)
       ELSE IF Head(first) = "/" THEN SchemeHost(url) \o first
       ELSE IF startswith(first, S_http) \/ startswith(first, S_https) THEN first
       ELSE S_https \o first

Loaded == phase = "serving" /\ openapi_spec.fetch = "ok"

\* C9: after a load, the server URL is the url of the first servers entry
\* when that is present and not empty, otherwise scheme, host and directory
\* of the spec URL; a url starting with a slash is put on the scheme and
\* host of the spec URL, one without a scheme gets https://.  So servers
\* [{url: /v2}] from https://host/api/openapi.json gives https://host/v2, and
\* no servers from https://host/api/v3/openapi.json gives https://host/api/v3.
C9_ServerUrlResolution ==
    Loaded =>
        /\ api_server_url = ExpectedServerUrl(environ.OPENAPI_URL, openapi_spec.servers)
        /\ (environ.OPENAPI_URL = U_spec /\ openapi_spec.servers = Servers("list", <<<<"/","v","2">>>>))
              => api_server_url = <<"h","t","t","p","s",":","/","/","h","o","s","t","/","v","2">>
        /\ (environ.OPENAPI_URL = U_spec_v3 /\ openapi_spec.servers = Servers("absent", <<>>))
              => api_server_url = <<"h","t","t","p","s",":","/","/","h","o","s","t","/","a","p","i","/","v","3">>

\* the first example of C9
C9_Witness ==
    /\ Loaded
    /\ environ.OPENAPI_URL = U_spec
    /\ openapi_spec.servers = Servers("list", <<<<"/","v","2">>>>)
    /\ api_server_url = <<"h","t","t","p","s",":","/","/","h","o","s","t","/","v","2">>

\* a message text: the fixed part of the text and the value formatted into it
IsMessageText(m) == DOMAIN m = {"fmt", "arg"} /\ m.fmt \in STRING

\* a value of the envelope shape for the given id
IsEnvelope(v, req_id) ==
    /\ "id" \in DOMAIN v
    /\ v.id = req_id
    /\ ("result" \in DOMAIN v) # ("error" \in DOMAIN v)
    /\ DOMAIN v \subseteq {"jsonrpc", "id", "result", "error"}
    /\ "error" \in DOMAIN v =>
          /\ {"code", "message"} \subseteq DOMAIN v.error
          /\ v.error.code \in Int
          /\ IsMessageText(v.error.message)

\* C10: every value a generated tool function or tools_call returns, on
\* every path, is an envelope with the id of the call and exactly one of
\* result and error, and every error has an integer code and a message text.
C10_AlwaysEnvelope ==
    (last.entry # "none" /\ last.out.returned) => IsEnvelope(last.out.ret, last.req_id)

\* the target API failed and tools_call returned the error envelope of the
\* tool function
C10_Witness ==
    /\ last.entry = "tools_call_tool"
    /\ last.out.returned
    /\ last.out.stage = "live"
    /\ last.out.eff.net # <<>>
    /\ last.out.eff.net[Len(last.out.eff.net)] = "api"
    /\ IsError(last, -32603)

\* C11: with OAuth configured, a token exchange that fails ends the process:
\* the call in progress returns nothing, it sends nothing to the target API,
\* and no call is served afterwards.
C11_ExchangeFailureStops ==
    /\ [][(lookups' = lookups + 1 /\ last'.out.eff.source = "exchange" /\ ~last'.resp.ok) =>
             /\ OAuthConfigured(environ)
             /\ ~last'.out.returned
             /\ \A i \in DOMAIN last'.out.eff.net : last'.out.eff.net[i] # "api"
             /\ phase' = "exited"]_vars
    /\ [][phase = "exited" => (phase' = "exited" /\ ncalls' = ncalls /\ last' = last)]_vars

\* the exchange failed under tools_call, which did not turn it into an envelope
C11_Witness ==
    /\ phase = "exited"
    /\ last.entry = "tools_call_tool"
    /\ last.out.eff.source = "exchange"
    /\ ~last.resp.ok
    /\ ~last.out.returned
    /\ last.out.eff.net = <<"token">>

\* one of the three OAuth variables is not set
AnyOAuthAbsent ==
    ~environ.OAUTH_CLIENT_ID \/ ~environ.OAUTH_CLIENT_SECRET \/ ~environ.OAUTH_TOKEN_URL

\* C12: when the client id, the client secret or the token URL is absent, the
\* credential lookup returns no token, contacts no token endpoint and leaves
\* the cache as it was, and the call goes on to its request, which carries no
\* Authorization header.
C12_UnconfiguredNoToken ==
    /\ [][(lookups' = lookups + 1 /\ AnyOAuthAbsent) =>
             /\ last'.out.eff.source = "unconfigured"
             /\ last'.out.eff.net \in {<<>>, <<"api">>}
             /\ exchanges' = exchanges
             /\ oauth_cache' = oauth_cache
             /\ phase' = phase
             /\ last'.out.returned
             /\ last'.out.stage \in {"dry_run", "live"}
             /\ N_Authorization \notin DOMAIN last'.out.prep.req_headers]_vars
    /\ [][(ncalls' = ncalls + 1 /\ AnyOAuthAbsent /\ last'.out.stage \in {"dry_run", "live"}) =>
             lookups' = lookups + 1]_vars

\* a live call without the client id went to the API without credentials
C12_Witness ==
    /\ ~environ.OAUTH_CLIENT_ID /\ environ.OAUTH_CLIENT_SECRET /\ environ.OAUTH_TOKEN_URL
    /\ last.out.stage = "live"
    /\ last.out.eff.source = "unconfigured"
    /\ last.out.eff.net = <<"api">>
    /\ N_Authorization \notin DOMAIN last.out.prep.req_headers
    /\ oauth_cache = OAuthCache

\* the load ended without a document: openapi_spec is the empty dict
LoadHasFailed == phase # "init" /\ openapi_spec = EmptySpec

\* C13: when the OpenAPI document cannot be fetched or parsed, or is
\* malformed, the process stops: no tool is registered and the server never
\* serves.
C13_FailedLoadNeverServes ==
    LoadHasFailed => (phase # "serving" /\ registered_tools = <<>> /\ ncalls = 0)

\* the name of the call is no key of the tool table, as given or prefixed
UnknownTool(call) ==
    /\ call.entry = "tools_call_tool"
    /\ call.name.t = "str" /\ call.name.s # <<>>
    /\ \A i \in DOMAIN registered_tools :
          /\ registered_tools[i].key # call.name.s
          /\ registered_tools[i].key # server_name \o <<"_">> \o call.name.s

\* C14: tools_call_tool with a name that is not registered, as given or with
\* the server-name prefix, returns the error -32601, runs no tool function
\* and sends no HTTP request.
C14_UnknownToolNotFound ==
    UnknownTool(last) =>
        /\ IsError(last, -32601)
        /\ last.out.stage = "unknown"
        /\ last.out.eff.net = <<>>
        /\ last.out.eff.source = "none"
        /\ last.out.prep = NoPrep

\* an unknown name was called on a server that has API tools
C14_Witness ==
    /\ UnknownTool(last)
    /\ last.name = Str(N_nope)
    /\ operations_info # <<>>
    /\ last.out.ret.error.code = -32601

\* the requests a call sent to the target API
ApiRequests(call) == Cardinality({i \in DOMAIN call.out.eff.net : call.out.eff.net[i] = "api"})

\* the call of a generated tool function prepared its request and is no dry run
LiveCall(call) == Prepared(call) /\ ~Truthy(call.out.prep.dry_run)

\* C15: a live call of a generated tool function sends exactly one request to
\* the target API; when that request ends in a non-2xx status or a transport
\* failure, the call returns the error -32603, the process goes on, and the
\* request is not sent again.
C15_LiveOneRequest ==
    /\ LiveCall(last) =>
          /\ ApiRequests(last) = 1
          /\ last.out.eff.net[Len(last.out.eff.net)] = "api"
          /\ last.out.upstream \in Upstream
          /\ last.out.returned
          /\ phase = "serving"
          /\ last.out.upstream \in {"status_error", "transport_error"} => IsError(last, -32603)
          /\ last.out.upstream \in {"json", "text"} =>
                "result" \in DOMAIN last.out.ret /\ "data" \in DOMAIN last.out.ret.result
    /\ (ReachesApi(last) /\ ~LiveCall(last)) => ApiRequests(last) = 0

\* a live call whose request timed out, answered with the internal error
C15_Witness ==
    /\ LiveCall(last)
    /\ last.out.upstream = "transport_error"
    /\ last.out.eff.net = <<"api">>
    /\ last.out.ret.error.code = -32603
    /\ phase = "serving"

\* the caller has sent an exchange and has not yet stored its answer
Exchanging(c) == callers[c].pc \in {"wait", "set_token", "set_expiry"}

\* C16: concurrent calls of get_oauth_access_token on an empty or expired
\* cache are serialized through check, exchange and store: no two exchanges
\* are under way at once, and no exchange is sent while the cache holds a
\* token that is still valid.
C16_RefreshSerialized ==
    /\ [](\A c1, c2 \in Callers : (Exchanging(c1) /\ Exchanging(c2)) => c1 = c2)
    /\ [][exchanges' = exchanges + 1 => ~Truthy(get_token(oauth_cache, now))]_vars

\* the call supplies dry_run as one of the truthy forms, in any letter case
DryRunRequested(call) ==
    /\ N_dry_run \in DOMAIN Supplied(call)
    /\ lower(str(Supplied(call)[N_dry_run])) \in TruthyForms

\* C17: a call that gets past the preparation is simulated exactly when its
\* dry_run value is one of the truthy forms true, 1, yes, y (so "false" and
\* "no" run live); the key dry_run is in no part of the request.
C17_DryRunTruthyForms ==
    Prepared(last) =>
        /\ (last.out.stage = "dry_run") <=> DryRunRequested(last)
        /\ N_dry_run \notin DOMAIN last.out.prep.req_params
        /\ N_dry_run \notin DOMAIN last.out.prep.req_headers

\* what get_oauth_access_token returned to the call
TokenReturned(call) ==
    CASE call.out.eff.source = "cache" -> call.out.eff.cache.token
      [] call.out.eff.source = "exchange" -> call.resp.access_token
      [] OTHER -> None

\* the call supplies a value for the declared header parameter name
HeaderSupplied(call, name) ==
    /\ name \in DOMAIN Supplied(call)
    /\ \E i \in DOMAIN Declared(call) : Declared(call)[i].name = name /\ Declared(call)[i].in = "header"

\* C18: every prepared request, of a dry run or of a live call, has the header
\* Authorization: Bearer <token> exactly when the credential lookup returned
\* a non-empty token, and has a User-Agent header: the value the caller
\* supplied for a declared header parameter User-Agent, else the default.
C18_RequestHeaders ==
    Prepared(last) =>
        /\ Truthy(TokenReturned(last)) =>
              /\ N_Authorization \in DOMAIN last.out.prep.req_headers
              /\ last.out.prep.req_headers[N_Authorization] = Bearer(TokenReturned(last))
        /\ (~Truthy(TokenReturned(last)) /\ ~HeaderSupplied(last, N_Authorization)) =>
              N_Authorization \notin DOMAIN last.out.prep.req_headers
        /\ N_User_Agent \in DOMAIN last.out.prep.req_headers
        /\ last.out.prep.req_headers[N_User_Agent] =
              IF HeaderSupplied(last, N_User_Agent) THEN Supplied(last)[N_User_Agent]
              ELSE Str(UserAgentDefault)

\* a request with a token just exchanged and the User-Agent of the caller
C18_Witness ==
    /\ Prepared(last)
    /\ last.out.eff.source = "exchange"
    /\ last.out.prep.req_headers[N_Authorization] = Bearer(T1)
    /\ HeaderSupplied(last, N_User_Agent)
    /\ last.out.prep.req_headers[N_User_Agent] = Str(<<"u","a">>)

\* the operations of the loaded document: the places of its entries whose key is an HTTP method
Operations == {i \in DOMAIN openapi_spec.paths : lower(openapi_spec.paths[i].method) \in HttpMethods}

\* the identifier of the i-th entry: its operationId, or method_path without
\* braces and with slashes as underscores, sanitized
OpId(i) ==
    LET e == openapi_spec.paths[i]
    IN sanitize_name(IF e.op.operationId.t = "str" /\ e.op.operationId.s # <<>> THEN e.op.operationId.s
                     ELSE e.method \o <<"_">> \o [k \in DOMAIN SelectSeq(e.path, LAMBDA c : c \notin {"{", "}"}) |->
                              IF SelectSeq(e.path, LAMBDA c : c \notin {"{", "}"})[k] = "/" THEN "_"
                              ELSE SelectSeq(e.path, LAMBDA c : c \notin {"{", "}"})[k]])

\* the last operation of the document with the identifier of the i-th
LatestWith(i) == CHOOSE j \in Operations : OpId(j) = OpId(i) /\ \A k \in Operations : OpId(k) = OpId(i) => k <= j

\* C19: after a load the operation table has one entry for each sanitized
\* identifier; when several operations of the document sanitize to the same
\* identifier the entry describes the one that comes last in the document;
\* the table has as many entries as there are distinct identifiers.
C19_CollisionLastWins ==
    Loaded =>
        /\ \A i \in Operations :
              /\ Cardinality({k \in DOMAIN operations_info : operations_info[k].key = OpId(i)}) = 1
              /\ \A k \in DOMAIN operations_info :
                    operations_info[k].key = OpId(i) =>
                       /\ operations_info[k].val.path = openapi_spec.paths[LatestWith(i)].path
                       /\ operations_info[k].val.method = upper(openapi_spec.paths[LatestWith(i)].method)
                       /\ \A n \in DOMAIN openapi_spec.paths[LatestWith(i)].op.parameters :
                             operations_info[k].val.parameters[n] = openapi_spec.paths[LatestWith(i)].op.parameters[n]
        /\ Len(operations_info) = Cardinality({OpId(i) : i \in Operations})

\* six operations were loaded into three entries: list_items describes GET
\* /things and get__a_b describes the third path of that name
C19_Witness ==
    /\ Loaded
    /\ openapi_spec.paths = PathsColliding
    /\ Len(operations_info) = 3
    /\ Lookup(operations_info, <<"l","i","s","t","_","i","t","e","m","s">>).path = <<"/","t","h","i","n","g","s">>
    /\ Lookup(operations_info, <<"g","e","t","_","_","a","_","b">>).path = <<"/","{","a","}","/","b">>
    /\ Lookup(operations_info, <<"g","e","t","_","_","a","_","b">>).parameters = <<P_limit>>

\* C20: in the paginating variant a call with dry_run=true sends nothing,
\* whatever its other arguments, all_pages=true included, and returns only
\* the description of the resolved request.
C20_CliDryRunNoNetwork ==
    FlagTrue(cli_kwargs, N_dry_run) =>
        /\ cli_log = <<>>
        /\ cli_pc = "done" => (cli_ret.kind \in {"dry_run", "help", "error"} /\ cli_ret.pages = <<>>)

\* C21: every all_pages invocation ends after finitely many requests,
\* whatever the target API answers, a totalPages that grows included.
C21_AllPagesTerminates == (cli_pc = "paging") ~> (cli_pc # "paging")

\* the place in cli_log of the request for page 0, less one
BeforePages == IF FlagTrue(cli_kwargs, N_dry_run) THEN 0 ELSE 1

\* C22: the page loop asks for the pages one after another, page 0 first,
\* and only after the request before was answered without failure; when the
\* request for a page fails, it is the last one and the call returns an
\* error, not the pages collected so far.
C22_PagesInOrderStopOnFailure ==
    /\ \A i \in 1..(Len(cli_log) - 1) : cli_log[i].resp.status = "ok"
    /\ \A i \in DOMAIN cli_log :
          (i > BeforePages /\ i - BeforePages <= MaxPage + 1) =>
              /\ N_page \in DOMAIN cli_log[i].query
              /\ cli_log[i].query[N_page] = PyInt(<<Digits[i - BeforePages]>>)
    /\ (cli_log # <<>> /\ cli_log[Len(cli_log)].resp.status # "ok") =>
          /\ cli_pc = "done"
          /\ cli_ret.kind = "error"
          /\ cli_ret.pages = <<>>

\* page 0 was collected, the request for page 1 ended in a non-2xx status
C22_Witness ==
    /\ cli_pc = "done"
    /\ Len(cli_log) = 3
    /\ cli_log[3].resp.status = "status_error"
    /\ cli_log[3].query[N_page] = PyInt(<<"1">>)
    /\ Len(results) = 1
    /\ cli_ret.kind = "error"
    /\ cli_ret.pages = <<>>

\* the latest request is a page request that was answered, and its answer is
\* not a JSON object whose page entry is an object with totalPages
LastPageUnpaginated ==
    /\ Len(cli_log) > BeforePages
    /\ Len(cli_log) < MaxKept
    /\ cli_log[Len(cli_log)].resp.status = "ok"
    /\ cli_log[Len(cli_log)].resp.body \notin {"paged", "paged_more"}

\* C23: a page answer that is no JSON object, has no page entry, has a page
\* entry that is no object, or has no totalPages in it, is the last page: the
\* loop ends with it and the call returns the pages collected, without
\* raising.
C23_UnpaginatedIsLastPage ==
    LastPageUnpaginated =>
        /\ cli_pc = "done"
        /\ cli_ret.kind = "pages"
        /\ cli_ret.pages = results
        /\ results # <<>> /\ results[Len(results)] = cli_log[Len(cli_log)].resp

\* the fetched document parsed to a mapping with both top-level keys
HasPathsAndInfo(doc) == doc.fetch = "ok" /\ doc.is_dict /\ doc.has_paths /\ doc.has_info

\* nothing came out of the load: empty spec, empty server URL, empty table
LoadIsEmpty == openapi_spec = EmptySpec /\ api_server_url = <<>> /\ operations_info = <<>>

\* C24: the load gives a non-empty result only for a fetched document that
\* is a mapping with both paths and info; a document without paths, without
\* info or without both gives the empty spec, the empty server URL and the
\* empty operation table.
C24_LoadNeedsPathsAndInfo ==
    phase # "init" =>
        /\ ~LoadIsEmpty => (HasPathsAndInfo(fetched) /\ openapi_spec = fetched)
        /\ ~HasPathsAndInfo(fetched) => LoadIsEmpty

\* a mapping with info and without paths was fetched and turned down
C24_Witness ==
    /\ phase = "serving"
    /\ fetched.fetch = "ok" /\ fetched.is_dict /\ ~fetched.has_paths /\ fetched.has_info
    /\ fetched.paths # <<>>
    /\ LoadIsEmpty

\* the text begins with the scheme http or https and its two slashes
AbsoluteHttpUrl(url) == startswith(url, S_http) \/ startswith(url, S_https)

\* C25: whatever the spec URL and the servers value of a loaded document,
\* the server URL of the load is absolute and begins with http:// or https://.
C25_ServerUrlAbsolute == Loaded => AbsoluteHttpUrl(api_server_url)

\* a servers url with another scheme, loaded from an http spec URL
C25_Witness ==
    /\ Loaded
    /\ environ.OPENAPI_URL = U_spec_root
    /\ openapi_spec.servers = Servers("list", <<<<"w","s",":","/","/","s","o","c","k",".","h","o","s","t">>>>)
    /\ api_server_url = <<"h","t","t","p","s",":","/","/","w","s",":","/","/","s","o","c","k",".","h","o","s","t">>

\* C26: every invocation of a tool function of the JSON-RPC command line
\* returns an envelope holding result or error; none that passes the check
\* of the required parameters ends in an exception, also with a path
\* parameter bound or a text that is no number given for an integer.
C26_RpcAlwaysEnvelope ==
    rpc.called => (rpc.out.kind = "envelope" /\ rpc.out.member \in {"result", "error"})

\* the declared path parameters a call supplied
PathSupplied(call) ==
    {i \in DOMAIN Declared(call) : Declared(call)[i].in = "path" /\ Declared(call)[i].name \in DOMAIN Supplied(call)}

\* a template with one placeholder, the placeholder exchanged for a text
Filled(template, text) ==
    SubSeq(template, 1, FirstPos(template, "{") - 1) \o text
        \o SubSeq(template, FirstPos(template, "}") + 1, Len(template))

\* the operation table's entry for the function a call reached
TableEntry(call) == Lookup(operations_info, Reached(call).op_id)

\* C27: a call of a generated tool function leaves the operation's path
\* template, parameter list, method and server URL as they were, and a call
\* that binds a path argument puts its own argument into the template of
\* the operation table, whatever the calls before it bound.
C27_TemplateUntouched ==
    [][ncalls' = ncalls + 1 =>
          /\ registered_tools' = registered_tools
          /\ operations_info' = operations_info
          /\ api_server_url' = api_server_url
          /\ (Prepared(last') /\ PathSupplied(last') # {}) =>
                \A i \in PathSupplied(last') :
                    last'.out.bound_path =
                        Filled(TableEntry(last').path, str(int(SuppliedFor(last', i)).v))]_vars

\* the second call put 8 into the template of /widgets/{id}
C27_Witness ==
    /\ ncalls = 2
    /\ Prepared(last)
    /\ <<"i","d">> \in DOMAIN last.kwargs
    /\ last.kwargs[<<"i","d">>] = Str(<<"8">>)
    /\ Reached(last).path = <<"/","w","i","d","g","e","t","s","/","{","i","d","}">>
    /\ last.out.bound_path = <<"/","w","i","d","g","e","t","s","/","8">>

\* the name an operation of the table is registered under
ToolNameOf(op_id) == sanitize_name(server_name \o <<"_">> \o op_id)

\* C28: after the registration every operation of the operation table has
\* an entry of its own in registered_tools, under the sanitized name
\* server_name + "_" + operation id, whose function invokes the method and
\* path of that operation; no other operation and no standard tool has
\* taken its place, whatever the server name and the operation ids.
C28_EveryOperationRegistered ==
    Loaded =>
        \A k \in DOMAIN operations_info :
            /\ HasKey(registered_tools, ToolNameOf(operations_info[k].key))
            /\ LET fn == Lookup(registered_tools, ToolNameOf(operations_info[k].key))
               IN /\ fn.kind = "api"
                  /\ fn.op_id = operations_info[k].key
                  /\ fn.method = operations_info[k].val.method
                  /\ fn.path = operations_info[k].val.path

\* the call was answered at the binding: kwargs string unparsable, required
\* parameter missing, or conversion error
RejectedAtBinding(call) == call.out.stage \in {"parse", "required", "conversion"}

\* C29: a call that _prepare_request rejects at the binding returns before
\* any credential lookup: no token is looked up or exchanged, nothing is
\* sent, and the token and expiry of the cache are as before.
C29_RejectedBeforeLookup ==
    [][(ncalls' = ncalls + 1 /\ RejectedAtBinding(last')) =>
          /\ lookups' = lookups
          /\ exchanges' = exchanges
          /\ oauth_cache' = oauth_cache
          /\ last'.out.eff.net = <<>>
          /\ phase' = phase]_vars

\* a conversion error answered with OAuth configured and no token cached,
\* where a lookup would have exchanged one
C29_Witness ==
    /\ ncalls >= 1
    /\ last.out.stage = "conversion"
    /\ environ = Environ(U_spec, TRUE, TRUE, TRUE)
    /\ ~Truthy(oauth_cache.token)
    /\ exchanges = 0
    /\ lookups = 0

\* the names declared for a place
DeclaredIn(call, loc) == {Declared(call)[i].name : i \in {j \in DOMAIN Declared(call) : Declared(call)[j].in = loc}}

\* the declared body parameters a call supplied, by position
BodySupplied(call) ==
    {i \in DOMAIN Declared(call) : Declared(call)[i].in = "body" /\ Declared(call)[i].name \in DOMAIN Supplied(call)}

\* the keys of a call that no parameter declares
Undeclared(call) == (DOMAIN Supplied(call)) \ {Declared(call)[i].name : i \in DOMAIN Declared(call)}

\* a supplied value of a declared parameter that cannot be converted
Unconvertible(call) ==
    \E i \in DOMAIN Declared(call) :
        /\ Declared(call)[i].name \in DOMAIN Supplied(call)
        /\ Declared(call)[i].type \in {"integer", "number"}
        /\ ~IsIntegerText(StripSpaces(str(SuppliedFor(call, i))))
        /\ ~(StripSpaces(str(SuppliedFor(call, i))) # <<>> /\ Head(StripSpaces(str(SuppliedFor(call, i)))) = "+")

\* C30: in a request that _prepare_request built, every key of the query is
\* the name of a declared query parameter, every key of the headers is the
\* name of a declared header parameter or Authorization or User-Agent, and
\* the body is the value of the last declared body parameter that was
\* supplied; a key that no parameter declares is never passed on, and it
\* causes no error.
C30_OnlyDeclaredForwarded ==
    /\ Prepared(last) =>
          /\ (DOMAIN last.out.prep.req_params) \subseteq DeclaredIn(last, "query")
          /\ (DOMAIN last.out.prep.req_headers) \subseteq
                 (DeclaredIn(last, "header") \cup {N_Authorization, N_User_Agent})
          /\ last.out.prep.req_body =
                 IF BodySupplied(last) = {} THEN None
                 ELSE SuppliedFor(last, CHOOSE i \in BodySupplied(last) : \A j \in BodySupplied(last) : j <= i)
          /\ \A k \in Undeclared(last) :
                 /\ k \notin DOMAIN last.out.prep.req_params
                 /\ k \in DOMAIN last.out.prep.req_headers => k \in {N_Authorization, N_User_Agent}
    /\ (ReachesBinding(last) /\ ~Unconvertible(last)) => last.out.stage \in {"dry_run", "live", "exit"}

\* both body parameters and a key that no parameter declares were supplied,
\* and the request holds the value of the request body and no query
C30_Witness ==
    /\ Prepared(last)
    /\ <<"z","z">> \in Undeclared(last)
    /\ Cardinality(BodySupplied(last)) = 2
    /\ last.out.prep.req_body = Str(<<"b">>)
    /\ last.out.prep.req_params = EmptyMap

====
